---- MODULE Spec2Model ----
(***************************************************************************)
(* ParseGuard backend: authentication middleware, token service and the    *)
(* owner-scoped repositories behind the protected routes.                  *)
(*                                                                         *)
(* Strings that the code parses (header values, token strings) are         *)
(* sequences of atoms; Option<T> is the empty or one-element sequence;     *)
(* a Uuid is a natural number and its textual forms are records.           *)
(***************************************************************************)
EXTENDS Integers, Sequences, FiniteSets, TLC

VARIABLES config, users, compliance_items, documents, risk_scores, nextId, now, last

vars == <<config, users, compliance_items, documents, risk_scores, nextId, now, last>>

----------------------------------------------------------------------------
(* Bounds of the model *)

\* number of resource ids the store hands out
MaxIds == 2

----------------------------------------------------------------------------
(* Option<T> *)

None == <<>>

Some(v) == <<v>>

is_some(o) == o # <<>>

unwrap(o) == o[1]

----------------------------------------------------------------------------
(* Uuid and its text forms: uuid::Uuid::to_string / Uuid::parse_str *)

UserIds == {101, 102}

ResourceIds == 1..MaxIds

\* Uuid::to_string: the lower-case hyphenated form
uuid_to_string(u) == [fmt |-> "hyphenated", hex |-> u]

\* text that is no uuid in any accepted form
GarbageSub == [fmt |-> "garbage", hex |-> 0]

UuidFormats == {"hyphenated", "simple", "urn", "braced"}

\* Uuid::parse_str: accepts the hyphenated, simple, urn and braced forms
uuid_parse_str(s) ==
  IF s.fmt \in UuidFormats THEN [ok |-> TRUE, uuid |-> s.hex]
  ELSE [ok |-> FALSE, uuid |-> 0]

----------------------------------------------------------------------------
(* Time *)

\* the wall clock at start-up, in seconds
T0 == 1000

\* Duration::hours(24) in seconds
TokenLifetime == 86400

\* jsonwebtoken Validation::default(): leeway in seconds
Leeway == 60

\* values of Config.jwt_expiration (JWT_EXPIRATION, default 86400)
JwtExpirationValues == {0, 60, 3600, 86400, 604800}

\* the instants the clock visits: around issue time and around expiry
Times ==
  { T0, T0 + 1, T0 + TokenLifetime, T0 + TokenLifetime + 1,
    T0 + TokenLifetime + Leeway, T0 + TokenLifetime + Leeway + 1 }

----------------------------------------------------------------------------
(* Token strings: a signed token is one atom of a header string *)

JwtSecret == "server-secret"

OtherSecret == "other-secret"

Emails == {"alice@example.com", "bob@example.com"}

EmailOf(u) == IF u = 101 THEN "alice@example.com" ELSE "bob@example.com"

NoTok == [alg |-> "", sub |-> GarbageSub, email |-> "", exp |-> 0, iat |-> 0, key |-> ""]

\* an atom of text: a word or separator (ch), or a whole signed token (tok)
Ch(c) == [ch |-> c, tok |-> NoTok]

Jwt(t) == [ch |-> "jwt", tok |-> t]

\* bytes that are not visible ASCII: HeaderValue::to_str fails on them
NonAscii == Ch("\\xff")

----------------------------------------------------------------------------
(* str operations used by the middleware *)

\* HeaderValue::to_str: Ok only when every byte is visible ASCII
to_str_ok(h) == \A i \in 1..Len(h) : h[i] # NonAscii

\* str::strip_prefix
strip_prefix(s, p) ==
  IF Len(s) >= Len(p) /\ SubSeq(s, 1, Len(p)) = p
  THEN Some(SubSeq(s, Len(p) + 1, Len(s)))
  ELSE None

IsSpace(a) == a = Ch(" ")

RECURSIVE trim_start(_)
trim_start(s) ==
  IF s # <<>> /\ IsSpace(Head(s)) THEN trim_start(Tail(s)) ELSE s

RECURSIVE trim_end(_)
trim_end(s) ==
  IF s # <<>> /\ IsSpace(s[Len(s)]) THEN trim_end(SubSeq(s, 1, Len(s) - 1)) ELSE s

\* str::trim
trim(s) == trim_end(trim_start(s))

\* str::split(sep): the pieces between the separators, empty pieces kept
RECURSIVE split(_, _)
split(s, sep) ==
  IF \E i \in 1..Len(s) : s[i] = sep
  THEN LET i == CHOOSE k \in 1..Len(s) : s[k] = sep /\ \A m \in 1..(k - 1) : s[m] # sep
       IN  <<SubSeq(s, 1, i - 1)>> \o split(SubSeq(s, i + 1, Len(s)), sep)
  ELSE <<s>>

BearerPrefix == <<Ch("Bearer"), Ch(" ")>>

AuthTokenName == <<Ch("auth_token")>>

----------------------------------------------------------------------------
(* error.rs: AppError and its response *)

AppError(kind, msg) == [kind |-> kind, msg |-> msg]

\* the thiserror Display prefix of each variant
DisplayPrefix(kind) ==
  CASE kind = "Database"   -> "Database error: "
    [] kind = "Auth"       -> "Authentication error: "
    [] kind = "Validation" -> "Validation error: "
    [] kind = "NotFound"   -> "Resource not found: "
    [] kind = "Internal"   -> "Internal server error: "
    [] kind = "Jwt"        -> "JWT error: "
    [] kind = "Ollama"     -> "OLLAMA API error: "
    [] kind = "Io"         -> "IO error: "
    [] OTHER               -> "Migration error: "

StatusOf(kind) ==
  CASE kind = "Database"   -> 500
    [] kind = "Auth"       -> 401
    [] kind = "Validation" -> 400
    [] kind = "NotFound"   -> 404
    [] kind = "Internal"   -> 500
    [] kind = "Jwt"        -> 401
    [] OTHER               -> 500

ErrorMessageOf(e) ==
  CASE e.kind = "Database"   -> "Database error occurred"
    [] e.kind = "Auth"       -> "Authentication failed"
    [] e.kind = "Validation" -> e.msg
    [] e.kind = "NotFound"   -> e.msg
    [] e.kind = "Internal"   -> "Internal server error"
    [] e.kind = "Jwt"        -> "Invalid token"
    [] e.kind = "Ollama"     -> "AI service error"
    [] e.kind = "Io"         -> "Internal server error"
    [] OTHER                 -> "Database migration failed"

\* an AppError whose text was built with format!("<msg>{}", e) from the
\* error e of a library; cause is the Display text of e
AppErrorFrom(kind, msg, cause) == [kind |-> kind, msg |-> msg, cause |-> cause]

\* the thiserror Display of an AppError: the prefix of the variant, then
\* its text
to_string(e) ==
  <<DisplayPrefix(e.kind), e.msg>> \o (IF "cause" \in DOMAIN e THEN <<e.cause>> ELSE <<>>)

\* AppError::into_response: {error: <fixed text>, message: self.to_string()}
into_response(e) ==
  [ status     |-> StatusOf(e.kind),
    error      |-> Some(ErrorMessageOf(e)),
    message    |-> Some(to_string(e)),
    body       |-> <<>>,
    set_cookie |-> None ]

\* a success response: status, JSON body (a list of values), no cookie
Reply(status, body) ==
  [ status |-> status, error |-> None, message |-> None,
    body |-> body, set_cookie |-> None ]

----------------------------------------------------------------------------
(* services/auth_service.rs: AuthService *)

Claims(sub, email, exp, iat) == [sub |-> sub, email |-> email, exp |-> exp, iat |-> iat]

Ok(v) == [ok |-> TRUE, val |-> v, err |-> AppError("", "")]

Err(e) == [ok |-> FALSE, val |-> Claims(GarbageSub, "", 0, 0), err |-> e]

\* jsonwebtoken::encode with Header::default() (HS256) and the secret
encode(claims, secret) ==
  << Jwt([ alg |-> "HS256", sub |-> claims.sub, email |-> claims.email,
           exp |-> claims.exp, iat |-> claims.iat, key |-> secret ]) >>

\* generate_token taking the lifetime from Config.jwt_expiration
generate_token_configured(secret, user_id, email, t) ==
  encode(Claims(uuid_to_string(user_id), email, t + config.jwt_expiration, t), secret)

\* AuthService::generate_token at wall-clock time t
generate_token(secret, user_id, email, t) ==
  encode(Claims(uuid_to_string(user_id), email, t + TokenLifetime, t), secret)

\* decode with the signature check switched off
decode_insecure(token, secret, t) ==
  IF Len(token) # 1 \/ token[1].ch # "jwt"
  THEN Err(AppError("Jwt", "InvalidToken"))
  ELSE LET j == token[1].tok IN
       IF j.alg # "HS256" THEN Err(AppError("Jwt", "InvalidAlgorithm"))
       ELSE IF j.exp < t - Leeway THEN Err(AppError("Jwt", "ExpiredSignature"))
       ELSE Ok(Claims(j.sub, j.email, j.exp, j.iat))

\* jsonwebtoken::decode with Validation::default(): HS256 only, the
\* signature is checked before the claims are read, exp is checked with
\* the default leeway
decode(token, secret, t) ==
  IF Len(token) # 1 \/ token[1].ch # "jwt"
  THEN Err(AppError("Jwt", "InvalidToken"))
  ELSE LET j == token[1].tok IN
       IF j.alg # "HS256" THEN Err(AppError("Jwt", "InvalidAlgorithm"))
       ELSE IF j.key # secret THEN Err(AppError("Jwt", "InvalidSignature"))
       ELSE IF j.exp < t - Leeway THEN Err(AppError("Jwt", "ExpiredSignature"))
       ELSE Ok(Claims(j.sub, j.email, j.exp, j.iat))

\* AuthService::validate_token at wall-clock time t
validate_token(secret, token, t) == decode(token, secret, t)

----------------------------------------------------------------------------
(* middleware/auth.rs: auth_middleware *)

\* a request's credential-carrying headers, each Option<header value>
Headers(authorization, cookie) == [authorization |-> authorization, cookie |-> cookie]

\* step 1: the Authorization header, when it is text starting with "Bearer "
header_token(headers) ==
  IF is_some(headers.authorization)
  THEN LET h == unwrap(headers.authorization) IN
       IF to_str_ok(h) THEN strip_prefix(h, BearerPrefix) ELSE None
  ELSE None

\* the closure without s.trim(): the pair is compared as it was cut
cookie_pair_untrimmed(s) ==
  LET parts == split(s, Ch("=")) IN
  IF Len(parts) = 2 /\ parts[1] = AuthTokenName THEN Some(parts[2]) ELSE None

\* the closure of find_map: Some(value) for a pair named auth_token
cookie_pair(s) ==
  LET parts == split(trim(s), Ch("=")) IN
  IF Len(parts) = 2 /\ parts[1] = AuthTokenName THEN Some(parts[2]) ELSE None

RECURSIVE find_map(_)
find_map(pieces) ==
  IF pieces = <<>> THEN None
  ELSE IF is_some(cookie_pair(Head(pieces))) THEN cookie_pair(Head(pieces))
  ELSE find_map(Tail(pieces))

\* step 2: the auth_token pair of the Cookie header
cookie_token(headers) ==
  IF is_some(headers.cookie) /\ to_str_ok(unwrap(headers.cookie))
  THEN find_map(split(unwrap(headers.cookie), Ch(";")))
  ELSE None

\* cookie.or_else(token): the cookie consulted first
candidate_token_cookie_first(headers) ==
  IF is_some(cookie_token(headers)) THEN cookie_token(headers) ELSE header_token(headers)

\* token.or_else(cookie): the candidate token string
candidate_token(headers) ==
  IF is_some(header_token(headers)) THEN header_token(headers) ELSE cookie_token(headers)

\* a request without a token let through under empty claims
auth_middleware_anonymous(headers, t) ==
  LET token == candidate_token(headers) IN
  IF ~is_some(token)
  THEN Ok(Claims(GarbageSub, "", 0, 0))
  ELSE validate_token(config.jwt_secret, unwrap(token), t)

\* the strict variant: an Authorization header that is present but yields
\* no token fails the request without a look at the cookie
auth_middleware_strict(headers, t) ==
  LET token == candidate_token(headers) IN
  IF is_some(headers.authorization) /\ ~is_some(header_token(headers))
  THEN Err(AppError("Auth", "Invalid authorization header"))
  ELSE IF ~is_some(token)
  THEN Err(AppError("Auth", "Missing authentication token"))
  ELSE validate_token(config.jwt_secret, unwrap(token), t)

\* a middleware with revocation: a token that a completed refresh replaced
\* is refused
auth_middleware_revoking(headers, t) ==
  LET token == candidate_token(headers) IN
  IF ~is_some(token)
  THEN Err(AppError("Auth", "Missing authentication token"))
  ELSE IF "superseded" \in DOMAIN last /\ unwrap(token) \in last.superseded
  THEN Err(AppError("Auth", "Token revoked"))
  ELSE validate_token(config.jwt_secret, unwrap(token), t)

\* a middleware that turns to the cookie when the header's token fails
auth_middleware_fallback(headers, t) ==
  LET token == candidate_token(headers) IN
  IF ~is_some(token)
  THEN Err(AppError("Auth", "Missing authentication token"))
  ELSE LET first == validate_token(config.jwt_secret, unwrap(token), t) IN
       IF first.ok \/ ~is_some(cookie_token(headers)) THEN first
       ELSE validate_token(config.jwt_secret, unwrap(cookie_token(headers)), t)

\* auth_middleware up to the call of next.run: Ok(claims) inserts the claims
\* into the request extensions, Err(e) answers without running the handler.
\* The secret is state.config.jwt_secret
auth_middleware(headers, t) ==
  LET token == candidate_token(headers) IN
  IF ~is_some(token)
  THEN Err(AppError("Auth", "Missing authentication token"))
  ELSE validate_token(config.jwt_secret, unwrap(token), t)

----------------------------------------------------------------------------
(* The store: the tables behind the PgPool, and statement results *)

\* the database as one value: what a handler reads and what it leaves
Db(u, c, d, r, n) ==
  [users |-> u, compliance_items |-> c, documents |-> d, risk_scores |-> r, nextId |-> n]

\* fetch_optional: the row of a set that holds at most one
fetch_optional(rows) == IF rows = {} THEN None ELSE Some(CHOOSE r \in rows : TRUE)

\* an outcome of a handler: the database it leaves and the response
Outcome(db, resp) == [db |-> db, resp |-> resp]

\* validator length(): the character count of the texts used as inputs
length(s) ==
  CASE s = ""   -> 0
    [] s = "ab" -> 2
    [] OTHER    -> 3

\* the sequences that list the rows of a set in an order ORDER BY .. DESC
\* allows: rows with equal keys may come in either order
OrderByDesc(rows, column) ==
  LET n == Cardinality(rows) IN
  { f \in [1..n -> rows] :
      /\ \A i, j \in 1..n : i # j => f[i] # f[j]
      /\ \A i, j \in 1..n : i < j => f[i][column] >= f[j][column] }

----------------------------------------------------------------------------
(* db/repository/compliance_repository.rs *)

ComplianceFields == <<"title", "description", "risk_level", "status", "due_date">>

ComplianceNullable == {"description", "due_date"}

ComplianceRepository_find_by_user(db, user_id) ==
  OrderByDesc({r \in db.compliance_items : r.user_id = user_id}, "created_at")

ComplianceRepository_find_by_id(db, id, user_id) ==
  fetch_optional({r \in db.compliance_items : r.id = id /\ r.user_id = user_id})

\* INSERT .. RETURNING: id, created_at and updated_at are column defaults
ComplianceRepository_create(db, user_id, dto, t) ==
  LET item == [ id |-> db.nextId, user_id |-> user_id, title |-> dto.title,
                description |-> dto.description, risk_level |-> dto.risk_level,
                status |-> dto.status, due_date |-> dto.due_date,
                created_at |-> t, updated_at |-> t ]
  IN  [ db  |-> [db EXCEPT !.compliance_items = @ \cup {item}, !.nextId = @ + 1],
        row |-> item ]

\* the SET clauses pushed for the fields present from position k on, with
\* the placeholder number each is given; param_count is the next number
RECURSIVE set_clauses(_, _, _)
set_clauses(dto, k, param_count) ==
  IF k > Len(ComplianceFields) THEN <<>>
  ELSE IF is_some(dto[ComplianceFields[k]])
       THEN <<[col |-> ComplianceFields[k], param |-> param_count]>>
            \o set_clauses(dto, k + 1, param_count + 1)
       ELSE set_clauses(dto, k + 1, param_count)

\* the binds with status bound before risk_level
bound_values_status_first(dto, k) ==
  LET order == <<"title", "description", "status", "risk_level", "due_date">>
      present == {i \in k..Len(order) : is_some(dto[order[i]])}
      nth(n) == CHOOSE i \in present : Cardinality({j \in present : j < i}) = n - 1
  IN  [n \in 1..Cardinality(present) |-> unwrap(dto[order[nth(n)]])]

\* the values bound after id and user_id, in binding order
RECURSIVE bound_values(_, _)
bound_values(dto, k) ==
  IF k > Len(ComplianceFields) THEN <<>>
  ELSE IF is_some(dto[ComplianceFields[k]])
       THEN <<unwrap(dto[ComplianceFields[k]])>> \o bound_values(dto, k + 1)
       ELSE bound_values(dto, k + 1)

\* the value a column takes under the clauses: $n is the (n-2)th value
\* bound after id and user_id
AssignedValue(row, col, clauses, binds) ==
  IF \E i \in 1..Len(clauses) : clauses[i].col = col
  THEN LET c == clauses[CHOOSE i \in 1..Len(clauses) : clauses[i].col = col]
           v == binds[c.param - 2]
       IN  IF col \in ComplianceNullable THEN Some(v) ELSE v
  ELSE row[col]

\* update without the read-back: an empty payload finds no row
ComplianceRepository_update_rejects_empty(db, id, user_id, dto, t) ==
  LET hit == {r \in db.compliance_items : r.id = id /\ r.user_id = user_id}
      new(r) == [ r EXCEPT
                    !.title = IF is_some(dto.title) THEN unwrap(dto.title) ELSE @,
                    !.description = IF is_some(dto.description) THEN dto.description ELSE @,
                    !.risk_level = IF is_some(dto.risk_level) THEN unwrap(dto.risk_level) ELSE @,
                    !.status = IF is_some(dto.status) THEN unwrap(dto.status) ELSE @,
                    !.due_date = IF is_some(dto.due_date) THEN dto.due_date ELSE @,
                    !.updated_at = t ]
  IN  IF \A f \in DOMAIN dto : ~is_some(dto[f])
      THEN [db |-> db, row |-> None]
      ELSE [ db  |-> [db EXCEPT !.compliance_items =
                                   (@ \ hit) \cup {new(r) : r \in hit}],
             row |-> fetch_optional({new(r) : r \in hit}) ]

\* UPDATE compliance_items SET <clauses>, updated_at = NOW()
\*  WHERE id = $1 AND user_id = $2 RETURNING ..
ComplianceRepository_update(db, id, user_id, dto, t) ==
  LET clauses == set_clauses(dto, 1, 3)
      binds   == bound_values(dto, 1)
      hit     == {r \in db.compliance_items : r.id = id /\ r.user_id = user_id}
      new(r)  == [ id |-> r.id, user_id |-> r.user_id,
                   title       |-> AssignedValue(r, "title", clauses, binds),
                   description |-> AssignedValue(r, "description", clauses, binds),
                   risk_level  |-> AssignedValue(r, "risk_level", clauses, binds),
                   status      |-> AssignedValue(r, "status", clauses, binds),
                   due_date    |-> AssignedValue(r, "due_date", clauses, binds),
                   created_at  |-> r.created_at, updated_at |-> t ]
  IN  IF clauses = <<>>
      THEN [db |-> db, row |-> ComplianceRepository_find_by_id(db, id, user_id)]
      ELSE [ db  |-> [db EXCEPT !.compliance_items =
                                   (@ \ hit) \cup {new(r) : r \in hit}],
             row |-> fetch_optional({new(r) : r \in hit}) ]

\* DELETE without the owner filter: WHERE id = $1 alone
ComplianceRepository_delete_unscoped(db, id, user_id) ==
  LET hit == {r \in db.compliance_items : r.id = id}
  IN  [ db |-> [db EXCEPT !.compliance_items = @ \ hit],
        deleted |-> Cardinality(hit) > 0 ]

\* DELETE FROM compliance_items WHERE id = $1 AND user_id = $2
ComplianceRepository_delete(db, id, user_id) ==
  LET hit == {r \in db.compliance_items : r.id = id /\ r.user_id = user_id}
  IN  [ db |-> [db EXCEPT !.compliance_items = @ \ hit],
        deleted |-> Cardinality(hit) > 0 ]

----------------------------------------------------------------------------
(* api/compliance.rs *)

InvalidUserId == AppError("Internal", "Invalid user ID in token")

list_compliance(db, claims) ==
  LET uid == uuid_parse_str(claims.sub) IN
  IF ~uid.ok THEN {Outcome(db, into_response(InvalidUserId))}
  ELSE {Outcome(db, Reply(200, items)) :
          items \in ComplianceRepository_find_by_user(db, uid.uuid)}

get_compliance(db, claims, id) ==
  LET uid == uuid_parse_str(claims.sub) IN
  IF ~uid.ok
  THEN {Outcome(db, into_response(AppError("Internal", "Invalid user ID in tokenToken")))}
  ELSE LET item == ComplianceRepository_find_by_id(db, id, uid.uuid) IN
       IF ~is_some(item)
       THEN {Outcome(db, into_response(AppError("NotFound", "Compliance item not found")))}
       ELSE {Outcome(db, Reply(200, item))}

create_compliance(db, claims, dto, t) ==
  LET uid == uuid_parse_str(claims.sub) IN
  IF length(dto.title) < 3
  THEN {Outcome(db, into_response(AppError("Validation", "Title must be at least 3 characters")))}
  ELSE IF ~uid.ok THEN {Outcome(db, into_response(InvalidUserId))}
  ELSE LET c == ComplianceRepository_create(db, uid.uuid, dto, t) IN
       {Outcome(c.db, Reply(201, <<c.row>>))}

update_compliance(db, claims, id, dto, t) ==
  LET uid == uuid_parse_str(claims.sub) IN
  IF is_some(dto.title) /\ length(unwrap(dto.title)) < 3
  THEN {Outcome(db, into_response(AppError("Validation", "Title must be at least 3 characters")))}
  ELSE IF ~uid.ok THEN {Outcome(db, into_response(InvalidUserId))}
  ELSE LET u == ComplianceRepository_update(db, id, uid.uuid, dto, t) IN
       IF ~is_some(u.row)
       THEN {Outcome(u.db, into_response(AppError("NotFound", "Compliance item not found")))}
       ELSE {Outcome(u.db, Reply(200, u.row))}

delete_compliance(db, claims, id) ==
  LET uid == uuid_parse_str(claims.sub) IN
  IF ~uid.ok THEN {Outcome(db, into_response(InvalidUserId))}
  ELSE LET d == ComplianceRepository_delete(db, id, uid.uuid) IN
       IF d.deleted THEN {Outcome(d.db, Reply(204, <<>>))}
       ELSE {Outcome(d.db, into_response(AppError("NotFound", "Compliance item not found")))}

----------------------------------------------------------------------------
(* db/repository/document_repository.rs *)

\* $n in place of COALESCE($n, column): an absent field writes NULL
COALESCE_replace(param, column) == param

\* COALESCE($n, column) for a nullable column
COALESCE(param, column) == IF is_some(param) THEN param ELSE column

\* COALESCE($n, column) for a NOT NULL column
COALESCE_not_null(param, column) == IF is_some(param) THEN unwrap(param) ELSE column

\* find_by_user without its WHERE user_id = $1
DocumentRepository_find_all(db, user_id) == OrderByDesc(db.documents, "uploaded_at")

DocumentRepository_find_by_user(db, user_id) ==
  OrderByDesc({r \in db.documents : r.user_id = user_id}, "uploaded_at")

DocumentRepository_find_by_id(db, id, user_id) ==
  fetch_optional({r \in db.documents : r.id = id /\ r.user_id = user_id})

\* INSERT .. RETURNING: id and uploaded_at are column defaults, ai_analysis
\* is not inserted and starts NULL.  file_size is bound `as i32`; every
\* size used here is below 2^31, where the cast keeps the value
DocumentRepository_create(db, user_id, dto, t) ==
  LET document == [ id |-> db.nextId, user_id |-> user_id, filename |-> dto.filename,
                    file_path |-> dto.file_path, file_size |-> dto.file_size,
                    mime_type |-> dto.mime_type, extracted_text |-> dto.extracted_text,
                    ai_analysis |-> None, uploaded_at |-> t ]
  IN  [ db  |-> [db EXCEPT !.documents = @ \cup {document}, !.nextId = @ + 1],
        row |-> document ]

\* UPDATE that writes user_id = $2 instead of filtering on it
DocumentRepository_update_reassigns(db, id, user_id, dto) ==
  LET hit    == {r \in db.documents : r.id = id}
      new(r) == [r EXCEPT !.user_id = user_id,
                          !.extracted_text = COALESCE(dto.extracted_text, @),
                          !.ai_analysis = COALESCE(dto.ai_analysis, @)]
  IN  [ db  |-> [db EXCEPT !.documents = (@ \ hit) \cup {new(r) : r \in hit}],
        row |-> fetch_optional({new(r) : r \in hit}) ]

DocumentRepository_update(db, id, user_id, dto) ==
  LET hit    == {r \in db.documents : r.id = id /\ r.user_id = user_id}
      new(r) == [r EXCEPT !.extracted_text = COALESCE(dto.extracted_text, @),
                          !.ai_analysis = COALESCE(dto.ai_analysis, @)]
  IN  [ db  |-> [db EXCEPT !.documents = (@ \ hit) \cup {new(r) : r \in hit}],
        row |-> fetch_optional({new(r) : r \in hit}) ]

DocumentRepository_delete(db, id, user_id) ==
  LET hit == {r \in db.documents : r.id = id /\ r.user_id = user_id}
  IN  [ db |-> [db EXCEPT !.documents = @ \ hit],
        deleted |-> Cardinality(hit) > 0 ]

----------------------------------------------------------------------------
(* api/documents.rs *)

DocumentNotFound == AppError("NotFound", "Document not found")

\* From<Document> for DocumentResponse
DocumentResponse(doc) ==
  [ id |-> doc.id, filename |-> doc.filename, file_size |-> doc.file_size,
    mime_type |-> doc.mime_type, has_extracted_text |-> is_some(doc.extracted_text),
    has_ai_analysis |-> is_some(doc.ai_analysis), uploaded_at |-> doc.uploaded_at ]

\* the title with every character that is not alphanumeric, '-' or '_'
\* replaced by '_'
safe_filename(title) == IF title = "my doc" THEN "my_doc" ELSE title

UploadDir == "./uploads"

\* Uuid::new_v4 values drawn for stored file names
FileUuids == {"f1", "f2"}

\* create_from_text: the file write may fail; the stored name carries a
\* fresh random uuid.  The router does not register this handler.
create_from_text(db, claims, dto, t) ==
  LET uid == uuid_parse_str(claims.sub)
      filename == <<safe_filename(dto.title), ".txt">>
  IN  IF ~uid.ok THEN {Outcome(db, into_response(InvalidUserId))}
      ELSE {Outcome(db, into_response(AppError("Internal", "Failed to create upload dir"))),
            Outcome(db, into_response(AppError("Internal", "Failed to save file")))}
           \cup
           { LET create_dto == [ filename |-> filename,
                                 file_path |-> <<UploadDir, "/", unique_id, "_">> \o filename,
                                 file_size |-> length(dto.content),
                                 mime_type |-> "text/plain",
                                 extracted_text |-> Some(dto.content) ]
                 c == DocumentRepository_create(db, uid.uuid, create_dto, t)
             IN  Outcome(c.db, Reply(201, <<c.row>>)) : unique_id \in FileUuids }

list_documents(db, claims) ==
  LET uid == uuid_parse_str(claims.sub) IN
  IF ~uid.ok THEN {Outcome(db, into_response(InvalidUserId))}
  ELSE {Outcome(db, Reply(200, [i \in 1..Len(docs) |-> DocumentResponse(docs[i])])) :
          docs \in DocumentRepository_find_by_user(db, uid.uuid)}

get_document(db, claims, id) ==
  LET uid == uuid_parse_str(claims.sub) IN
  IF ~uid.ok THEN {Outcome(db, into_response(InvalidUserId))}
  ELSE LET document == DocumentRepository_find_by_id(db, id, uid.uuid) IN
       IF ~is_some(document) THEN {Outcome(db, into_response(DocumentNotFound))}
       ELSE {Outcome(db, Reply(200, document))}

\* CreateDocumentDto::validate: the first failing rule in field order
create_document_invalid(dto) ==
  IF Len(dto.filename) < 1 THEN Some("Filename is required")
  ELSE IF Len(dto.file_path) < 1 THEN Some("File path is required")
  ELSE IF dto.file_size < 1 THEN Some("File size must be positive")
  ELSE IF length(dto.mime_type) < 1 THEN Some("MIME type is required")
  ELSE None

create_document(db, claims, dto, t) ==
  LET uid == uuid_parse_str(claims.sub) IN
  IF is_some(create_document_invalid(dto))
  THEN {Outcome(db, into_response(AppError("Validation", unwrap(create_document_invalid(dto)))))}
  ELSE IF ~uid.ok THEN {Outcome(db, into_response(InvalidUserId))}
  ELSE LET c == DocumentRepository_create(db, uid.uuid, dto, t) IN
       {Outcome(c.db, Reply(201, <<c.row>>))}

\* UpdateDocumentDto carries no validation rule
update_document(db, claims, id, dto) ==
  LET uid == uuid_parse_str(claims.sub) IN
  IF ~uid.ok THEN {Outcome(db, into_response(InvalidUserId))}
  ELSE LET u == DocumentRepository_update(db, id, uid.uuid, dto) IN
       IF ~is_some(u.row) THEN {Outcome(u.db, into_response(DocumentNotFound))}
       ELSE {Outcome(u.db, Reply(200, u.row))}

delete_document(db, claims, id) ==
  LET uid == uuid_parse_str(claims.sub) IN
  IF ~uid.ok THEN {Outcome(db, into_response(InvalidUserId))}
  ELSE LET d == DocumentRepository_delete(db, id, uid.uuid) IN
       IF d.deleted THEN {Outcome(d.db, Reply(204, <<>>))}
       ELSE {Outcome(d.db, into_response(DocumentNotFound))}

----------------------------------------------------------------------------
(* db/repository/risk_score_repository.rs *)

RiskLevels == {"low", "medium", "high", "critical"}

RiskScoreRepository_find_by_user(db, user_id) ==
  OrderByDesc({r \in db.risk_scores : r.user_id = user_id}, "created_at")

RiskScoreRepository_find_by_compliance_item(db, compliance_item_id, user_id) ==
  OrderByDesc({r \in db.risk_scores :
                 r.compliance_item_id = compliance_item_id /\ r.user_id = user_id},
              "assessment_date")

RiskScoreRepository_find_by_id(db, id, user_id) ==
  fetch_optional({r \in db.risk_scores : r.id = id /\ r.user_id = user_id})

\* create with the binds of compliance_item_id and user_id exchanged
RiskScoreRepository_create_swapped(db, user_id, dto, t) ==
  LET cid == uuid_parse_str(dto.compliance_item_id)
      did == IF is_some(dto.document_id) THEN uuid_parse_str(unwrap(dto.document_id))
             ELSE [ok |-> TRUE, uuid |-> 0]
      score == [ id |-> db.nextId, compliance_item_id |-> user_id,
                 document_id |-> IF is_some(dto.document_id) THEN Some(did.uuid) ELSE None,
                 user_id |-> cid.uuid, risk_category |-> dto.risk_category,
                 risk_score |-> dto.risk_score, risk_level |-> dto.risk_level,
                 assessment_date |-> t, assessed_by |-> dto.assessed_by,
                 notes |-> dto.notes, ai_confidence |-> dto.ai_confidence,
                 ai_reasoning |-> dto.ai_reasoning, created_at |-> t, updated_at |-> t ]
  IN  IF ~cid.ok
      THEN [db |-> db, row |-> None, err |-> Some(AppError("Validation", "Invalid compliance item ID"))]
      ELSE IF ~did.ok
      THEN [db |-> db, row |-> None, err |-> Some(AppError("Validation", "Invalid document ID"))]
      ELSE [ db  |-> [db EXCEPT !.risk_scores = @ \cup {score}, !.nextId = @ + 1],
             row |-> Some(score), err |-> None ]

\* create: the two ids are parsed first, then INSERT .. RETURNING; id,
\* assessment_date, created_at and updated_at are column defaults
RiskScoreRepository_create(db, user_id, dto, t) ==
  LET cid == uuid_parse_str(dto.compliance_item_id)
      did == IF is_some(dto.document_id) THEN uuid_parse_str(unwrap(dto.document_id))
             ELSE [ok |-> TRUE, uuid |-> 0]
      score == [ id |-> db.nextId, compliance_item_id |-> cid.uuid,
                 document_id |-> IF is_some(dto.document_id) THEN Some(did.uuid) ELSE None,
                 user_id |-> user_id, risk_category |-> dto.risk_category,
                 risk_score |-> dto.risk_score, risk_level |-> dto.risk_level,
                 assessment_date |-> t, assessed_by |-> dto.assessed_by,
                 notes |-> dto.notes, ai_confidence |-> dto.ai_confidence,
                 ai_reasoning |-> dto.ai_reasoning, created_at |-> t, updated_at |-> t ]
  IN  IF ~cid.ok
      THEN [db |-> db, row |-> None, err |-> Some(AppError("Validation", "Invalid compliance item ID"))]
      ELSE IF ~did.ok
      THEN [db |-> db, row |-> None, err |-> Some(AppError("Validation", "Invalid document ID"))]
      ELSE [ db  |-> [db EXCEPT !.risk_scores = @ \cup {score}, !.nextId = @ + 1],
             row |-> Some(score), err |-> None ]

\* UPDATE with notes = $6, ai_confidence = $7, ai_reasoning = $8 in place
\* of their COALESCE: an absent or null field writes NULL
RiskScoreRepository_update_assign(db, id, user_id, dto) ==
  LET hit    == {r \in db.risk_scores : r.id = id /\ r.user_id = user_id}
      new(r) == [r EXCEPT !.risk_category = COALESCE_not_null(dto.risk_category, @),
                          !.risk_score = COALESCE_not_null(dto.risk_score, @),
                          !.risk_level = COALESCE_not_null(dto.risk_level, @),
                          !.notes = dto.notes,
                          !.ai_confidence = dto.ai_confidence,
                          !.ai_reasoning = dto.ai_reasoning]
  IN  [ db  |-> [db EXCEPT !.risk_scores = (@ \ hit) \cup {new(r) : r \in hit}],
        row |-> fetch_optional({new(r) : r \in hit}) ]

RiskScoreRepository_update(db, id, user_id, dto) ==
  LET hit    == {r \in db.risk_scores : r.id = id /\ r.user_id = user_id}
      new(r) == [r EXCEPT !.risk_category = COALESCE_not_null(dto.risk_category, @),
                          !.risk_score = COALESCE_not_null(dto.risk_score, @),
                          !.risk_level = COALESCE_not_null(dto.risk_level, @),
                          !.notes = COALESCE(dto.notes, @),
                          !.ai_confidence = COALESCE(dto.ai_confidence, @),
                          !.ai_reasoning = COALESCE(dto.ai_reasoning, @)]
  IN  [ db  |-> [db EXCEPT !.risk_scores = (@ \ hit) \cup {new(r) : r \in hit}],
        row |-> fetch_optional({new(r) : r \in hit}) ]

RiskScoreRepository_delete(db, id, user_id) ==
  LET hit == {r \in db.risk_scores : r.id = id /\ r.user_id = user_id}
  IN  [ db |-> [db EXCEPT !.risk_scores = @ \ hit],
        deleted |-> Cardinality(hit) > 0 ]

----------------------------------------------------------------------------
(* api/risk_scores.rs *)

RiskScoreNotFound == AppError("NotFound", "Risk score not found")

list_scores(db, claims) ==
  LET uid == uuid_parse_str(claims.sub) IN
  IF ~uid.ok THEN {Outcome(db, into_response(InvalidUserId))}
  ELSE {Outcome(db, Reply(200, scores)) :
          scores \in RiskScoreRepository_find_by_user(db, uid.uuid)}

list_by_compliance(db, claims, id) ==
  LET uid == uuid_parse_str(claims.sub) IN
  IF ~uid.ok THEN {Outcome(db, into_response(InvalidUserId))}
  ELSE {Outcome(db, Reply(200, scores)) :
          scores \in RiskScoreRepository_find_by_compliance_item(db, id, uid.uuid)}

\* get_score answering 401 for a row that exists under another user
get_score_forbidden(db, claims, id) ==
  LET uid == uuid_parse_str(claims.sub) IN
  IF ~uid.ok THEN {Outcome(db, into_response(InvalidUserId))}
  ELSE LET score == RiskScoreRepository_find_by_id(db, id, uid.uuid) IN
       IF is_some(score) THEN {Outcome(db, Reply(200, score))}
       ELSE IF \E r \in db.risk_scores : r.id = id
       THEN {Outcome(db, into_response(AppError("Auth", "Not your risk score")))}
       ELSE {Outcome(db, into_response(RiskScoreNotFound))}

get_score(db, claims, id) ==
  LET uid == uuid_parse_str(claims.sub) IN
  IF ~uid.ok THEN {Outcome(db, into_response(InvalidUserId))}
  ELSE LET score == RiskScoreRepository_find_by_id(db, id, uid.uuid) IN
       IF ~is_some(score) THEN {Outcome(db, into_response(RiskScoreNotFound))}
       ELSE {Outcome(db, Reply(200, score))}

\* CreateRiskScoreDto::validate: the first failing rule in field order
create_score_invalid(dto) ==
  IF dto.compliance_item_id.fmt = "empty" THEN Some("Compliance item ID is required")
  ELSE IF length(dto.risk_category) < 1 THEN Some("Risk category must be 1-100 characters")
  ELSE IF dto.risk_score < 0 \/ dto.risk_score > 100 THEN Some("Risk score must be 0-100")
  ELSE IF dto.risk_level \notin RiskLevels THEN Some("invalid_risk_level")
  ELSE None

create_score(db, claims, dto, t) ==
  LET uid == uuid_parse_str(claims.sub) IN
  IF is_some(create_score_invalid(dto))
  THEN {Outcome(db, into_response(AppError("Validation", unwrap(create_score_invalid(dto)))))}
  ELSE IF ~uid.ok THEN {Outcome(db, into_response(InvalidUserId))}
  ELSE LET c == RiskScoreRepository_create(db, uid.uuid, dto, t) IN
       IF is_some(c.err) THEN {Outcome(c.db, into_response(unwrap(c.err)))}
       ELSE {Outcome(c.db, Reply(201, c.row))}

\* UpdateRiskScoreDto::validate: risk_category and risk_score when present;
\* risk_level carries no rule
update_score_invalid(dto) ==
  IF is_some(dto.risk_category) /\ length(unwrap(dto.risk_category)) < 1
  THEN Some("risk_category")
  ELSE IF is_some(dto.risk_score)
          /\ (unwrap(dto.risk_score) < 0 \/ unwrap(dto.risk_score) > 100)
  THEN Some("risk_score")
  ELSE None

update_score(db, claims, id, dto) ==
  LET uid == uuid_parse_str(claims.sub) IN
  IF is_some(update_score_invalid(dto))
  THEN {Outcome(db, into_response(AppError("Validation", unwrap(update_score_invalid(dto)))))}
  ELSE IF ~uid.ok THEN {Outcome(db, into_response(InvalidUserId))}
  ELSE LET u == RiskScoreRepository_update(db, id, uid.uuid, dto) IN
       IF ~is_some(u.row) THEN {Outcome(u.db, into_response(RiskScoreNotFound))}
       ELSE {Outcome(u.db, Reply(200, u.row))}

delete_score(db, claims, id) ==
  LET uid == uuid_parse_str(claims.sub) IN
  IF ~uid.ok THEN {Outcome(db, into_response(InvalidUserId))}
  ELSE LET d == RiskScoreRepository_delete(db, id, uid.uuid) IN
       IF d.deleted THEN {Outcome(d.db, Reply(204, <<>>))}
       ELSE {Outcome(d.db, into_response(RiskScoreNotFound))}

----------------------------------------------------------------------------
(* api/dashboard.rs, api/ai.rs, api/auth.rs: the other protected handlers *)

\* get_stats: counts over the caller's compliance items and documents
get_stats(db, claims) ==
  LET uid == uuid_parse_str(claims.sub) IN
  IF ~uid.ok THEN {Outcome(db, into_response(InvalidUserId))}
  ELSE {Outcome(db, Reply(200,
          << [ compliance |-> Cardinality({r \in db.compliance_items : r.user_id = uid.uuid}),
               documents  |-> Cardinality({r \in db.documents : r.user_id = uid.uuid}) ] >>))}

\* get_activity: the caller's compliance items and documents, newest first
get_activity(db, claims) ==
  LET uid == uuid_parse_str(claims.sub)
      mine == {[id |-> r.id, created_at |-> r.created_at] :
                 r \in {x \in db.compliance_items : x.user_id = uid.uuid}}
              \cup {[id |-> r.id, created_at |-> r.uploaded_at] :
                 r \in {x \in db.documents : x.user_id = uid.uuid}}
  IN  IF ~uid.ok THEN {Outcome(db, into_response(InvalidUserId))}
      ELSE {Outcome(db, Reply(200, items)) : items \in OrderByDesc(mine, "created_at")}

\* analyze_document, assess_risk: a call to the external AI service that
\* answers or fails; neither reads the claims nor the database
ai_handler(db) ==
  { Outcome(db, Reply(200, <<>>)),
    Outcome(db, into_response(AppError("Ollama", "Failed to connect to OLLAMA"))) }

\* create_auth_cookie
create_auth_cookie(token) ==
  <<Ch("auth_token"), Ch("=")>> \o token
    \o <<Ch(";"), Ch(" "), Ch("HttpOnly"), Ch(";"), Ch(" "), Ch("Path=/"), Ch(";"), Ch(" "),
         Ch("SameSite=Lax"), Ch(";"), Ch(" "), Ch("Max-Age=604800")>>

\* From<User> for UserResponse
UserResponse(user) ==
  [id |-> user.id, email |-> user.email, full_name |-> user.full_name,
   created_at |-> user.created_at]

UserRepository_find_by_id(db, id) == fetch_optional({u \in db.users : u.id = id})

\* refresh: a new token for the caller when the user row still exists
refresh(db, claims, t) ==
  LET uid == uuid_parse_str(claims.sub) IN
  IF ~uid.ok
  THEN {Outcome(db, into_response(AppError("Internal", "Invalid user ID in token")))}
  ELSE LET user == UserRepository_find_by_id(db, uid.uuid) IN
       IF ~is_some(user)
       THEN {Outcome(db, into_response(AppError("Auth", "User not found")))}
       ELSE LET token == generate_token(config.jwt_secret, unwrap(user).id, unwrap(user).email, t) IN
            {Outcome(db, [Reply(200, <<UserResponse(unwrap(user))>>)
                            EXCEPT !.set_cookie = Some(create_auth_cookie(token))])}

----------------------------------------------------------------------------
(* api/mod.rs: create_router, the protected routes behind auth_middleware *)

ProtectedRoutes ==
  { "POST /auth/refresh",
    "GET /compliance", "POST /compliance", "GET /compliance/:id",
    "PUT /compliance/:id", "DELETE /compliance/:id",
    "GET /documents", "POST /documents", "GET /documents/:id",
    "PUT /documents/:id", "DELETE /documents/:id",
    "GET /dashboard/stats", "GET /dashboard/activity",
    "GET /risk-scores", "GET /risk-scores/compliance/:id", "POST /risk-scores",
    "GET /risk-scores/:id", "PUT /risk-scores/:id", "DELETE /risk-scores/:id",
    "POST /ai/analyze", "POST /ai/assess-risk" }

\* the handler the router runs for a route: arg.id is the path id and
\* arg.dto the JSON body, for the routes that take them
route_handler(route, db, claims, arg, t) ==
  CASE route = "POST /auth/refresh"      -> refresh(db, claims, t)
    [] route = "GET /compliance"         -> list_compliance(db, claims)
    [] route = "POST /compliance"        -> create_compliance(db, claims, arg.dto, t)
    [] route = "GET /compliance/:id"     -> get_compliance(db, claims, arg.id)
    [] route = "PUT /compliance/:id"     -> update_compliance(db, claims, arg.id, arg.dto, t)
    [] route = "DELETE /compliance/:id"  -> delete_compliance(db, claims, arg.id)
    [] route = "GET /documents"          -> list_documents(db, claims)
    [] route = "POST /documents"         -> create_document(db, claims, arg.dto, t)
    [] route = "GET /documents/:id"      -> get_document(db, claims, arg.id)
    [] route = "PUT /documents/:id"      -> update_document(db, claims, arg.id, arg.dto)
    [] route = "DELETE /documents/:id"   -> delete_document(db, claims, arg.id)
    [] route = "GET /dashboard/stats"    -> get_stats(db, claims)
    [] route = "GET /dashboard/activity" -> get_activity(db, claims)
    [] route = "GET /risk-scores"        -> list_scores(db, claims)
    [] route = "GET /risk-scores/compliance/:id" -> list_by_compliance(db, claims, arg.id)
    [] route = "POST /risk-scores"       -> create_score(db, claims, arg.dto, t)
    [] route = "GET /risk-scores/:id"    -> get_score(db, claims, arg.id)
    [] route = "PUT /risk-scores/:id"    -> update_score(db, claims, arg.id, arg.dto)
    [] route = "DELETE /risk-scores/:id" -> delete_score(db, claims, arg.id)
    [] OTHER                             -> ai_handler(db)

\* the handler mounted without the guard of the Ok arm
protected_route_unguarded(route, headers, db, arg, t) ==
  LET auth == auth_middleware(headers, t) IN
  { [db |-> o.db, resp |-> o.resp, ran |-> TRUE, claims |-> Some(auth.val)] :
      o \in route_handler(route, db, auth.val, arg, t) }

\* a protected route: route_layer(auth_middleware) around the handler.
\* next.run is reached only through the Ok arm, with the claims inserted
protected_route(route, headers, db, arg, t) ==
  LET auth == auth_middleware(headers, t) IN
  IF auth.ok
  THEN { [db |-> o.db, resp |-> o.resp, ran |-> TRUE, claims |-> Some(auth.val)] :
           o \in route_handler(route, db, auth.val, arg, t) }
  ELSE { [db |-> db, resp |-> into_response(auth.err), ran |-> FALSE, claims |-> None] }

----------------------------------------------------------------------------
(* Inputs: token strings, header values and request bodies *)

\* the token the service issues to user u at time t
IssuedToken(u, t) == generate_token(JwtSecret, u, EmailOf(u), t)

BearerOf(token) == Headers(Some(BearerPrefix \o token), None)

CookieOf(token) == Headers(None, Some(AuthTokenName \o <<Ch("=")>> \o token))

NoCredentials == Headers(None, None)

\* present exactly the fields of F, each with the value an update writes
UpdateComplianceDto(F) ==
  [ title       |-> IF "title" \in F THEN Some("new") ELSE None,
    description |-> IF "description" \in F THEN Some("new") ELSE None,
    risk_level  |-> IF "risk_level" \in F THEN Some("high") ELSE None,
    status      |-> IF "status" \in F THEN Some("completed") ELSE None,
    due_date    |-> IF "due_date" \in F THEN Some(T0 + TokenLifetime) ELSE None ]

AllComplianceFields == {ComplianceFields[i] : i \in 1..Len(ComplianceFields)}

CreateComplianceDtos ==
  { [ title |-> ti, description |-> Some("old"), risk_level |-> "low",
      status |-> "pending", due_date |-> None ] : ti \in {"old", "ab"} }

UpdateComplianceDtos ==
  { UpdateComplianceDto(F) : F \in {{}, {"title"}, AllComplianceFields} }

CreateDocumentDtos ==
  { [ filename |-> <<"old">>, file_path |-> <<"p">>, file_size |-> sz,
      mime_type |-> "text/plain", extracted_text |-> None ] : sz \in {0, 10} }

UpdateDocumentDtos ==
  { [extracted_text |-> None, ai_analysis |-> None],
    [extracted_text |-> Some("new"), ai_analysis |-> None],
    [extracted_text |-> Some("new"), ai_analysis |-> Some("json")] }

CreateRiskScoreDtos ==
  { [ compliance_item_id |-> cid, document_id |-> None, risk_category |-> "old",
      risk_score |-> 50, risk_level |-> "low", assessed_by |-> None, notes |-> None,
      ai_confidence |-> None, ai_reasoning |-> None ] :
      cid \in {uuid_to_string(1), GarbageSub} }

UpdateRiskScoreDtos ==
  { [ risk_category |-> None, risk_score |-> None, risk_level |-> None,
      notes |-> None, ai_confidence |-> None, ai_reasoning |-> None ],
    [ risk_category |-> None, risk_score |-> None, risk_level |-> None,
      notes |-> Some("new"), ai_confidence |-> None, ai_reasoning |-> None ],
    [ risk_category |-> Some("new"), risk_score |-> Some(90), risk_level |-> Some("high"),
      notes |-> Some("new"), ai_confidence |-> Some(1), ai_reasoning |-> Some("new") ] }

\* the credentials presented to the store: each user's token, one in the
\* Authorization header and one in the cookie, and a request without any
StoreHeaders ==
  { BearerOf(IssuedToken(101, T0)), CookieOf(IssuedToken(102, T0)), NoCredentials }

NoArg == [id |-> 0, dto |-> None]

\* the path id and body of the requests sent to the store: a create
\* carries a body, a read or a delete an id, an update both
IdArgs == { [id |-> id, dto |-> None] : id \in ResourceIds }

CreateComplianceArgs == { [id |-> 0, dto |-> dto] : dto \in CreateComplianceDtos }

UpdateComplianceArgs ==
  { [id |-> id, dto |-> dto] : id \in ResourceIds, dto \in UpdateComplianceDtos }

CreateDocumentArgs == { [id |-> 0, dto |-> dto] : dto \in CreateDocumentDtos }

UpdateDocumentArgs ==
  { [id |-> id, dto |-> dto] : id \in ResourceIds, dto \in UpdateDocumentDtos }

CreateRiskScoreArgs == { [id |-> 0, dto |-> dto] : dto \in CreateRiskScoreDtos }

UpdateRiskScoreArgs ==
  { [id |-> id, dto |-> dto] : id \in ResourceIds, dto \in UpdateRiskScoreDtos }

----------------------------------------------------------------------------
(* State *)

\* the rows of the users table at start-up
RegisteredUsers ==
  { [ id |-> u, email |-> EmailOf(u), password_hash |-> "hash", full_name |-> "name",
      created_at |-> T0, updated_at |-> T0 ] : u \in UserIds }

DB == Db(users, compliance_items, documents, risk_scores, nextId)

Idle == [phase |-> "idle"]

\* Config::from_env with JWT_EXPIRATION unset
DefaultConfig == [jwt_secret |-> JwtSecret, jwt_expiration |-> 86400]

Init ==
  /\ config = DefaultConfig
  /\ users = RegisteredUsers
  /\ compliance_items = {}
  /\ documents = {}
  /\ risk_scores = {}
  /\ nextId = 1
  /\ now = T0
  /\ last = Idle

\* middleware/logger.rs: the INCOMING REQUEST entry, as far as it shows the
\* credential headers: authorization is redacted, every other header is
\* written with its value, a value that is not text as <binary>
logger_middleware(headers) ==
  [ level |-> "info",
    text  |-> (IF is_some(headers.authorization)
               THEN <<Ch("authorization: "), Ch("[REDACTED]")>> ELSE <<>>)
              \o (IF ~is_some(headers.cookie) THEN <<>>
                  ELSE IF to_str_ok(unwrap(headers.cookie))
                  THEN <<Ch("cookie: ")>> \o unwrap(headers.cookie)
                  ELSE <<Ch("cookie: "), Ch("<binary>")>>) ]

\* the entries auth_middleware writes: error! on a missing token; error!
\* with the error and debug! with the token on a rejected token
auth_middleware_log(headers, t) ==
  LET token == candidate_token(headers) IN
  IF ~is_some(token)
  THEN << [ level |-> "error",
            text  |-> <<Ch("Auth Failed: No token found in Authorization header or Cookie")>> ] >>
  ELSE LET v == validate_token(config.jwt_secret, unwrap(token), t) IN
       IF v.ok THEN <<>>
       ELSE << [ level |-> "error",
                 text  |-> <<Ch("Auth Failed: Token validation failed: "), Ch(v.err.msg)>> ],
               [ level |-> "debug",
                 text  |-> <<Ch("Failed token: ")>> \o unwrap(token) ] >>

\* what one request to a protected route adds to the log: the logger layer
\* is outside the router, so its entry comes first
request_log(headers, t) == <<logger_middleware(headers)>> \o auth_middleware_log(headers, t)

\* one request to a protected route, from its arrival to its response;
\* the store hands out at most MaxIds ids
Request(route, headers, arg) ==
  /\ last.phase = "idle"
  /\ \E o \in protected_route(route, headers, DB, arg, now) :
       /\ o.db.nextId <= MaxIds + 1
       /\ users' = o.db.users
       /\ compliance_items' = o.db.compliance_items
       /\ documents' = o.db.documents
       /\ risk_scores' = o.db.risk_scores
       /\ nextId' = o.db.nextId
       /\ last' = [ phase |-> "done", route |-> route, headers |-> headers, arg |-> arg,
                    at |-> now, ran |-> o.ran, claims |-> o.claims, resp |-> o.resp,
                    log |-> request_log(headers, now) ]
  /\ UNCHANGED <<config, now>>

\* the response leaves the server; the next request can arrive
Deliver ==
  /\ last.phase = "done"
  /\ last' = Idle
  /\ UNCHANGED <<config, users, compliance_items, documents, risk_scores, nextId, now>>

ComplianceRequest(h) ==
  \/ Request("GET /compliance", h, NoArg)
  \/ \E arg \in CreateComplianceArgs : Request("POST /compliance", h, arg)
  \/ \E arg \in IdArgs : Request("GET /compliance/:id", h, arg)
  \/ \E arg \in UpdateComplianceArgs : Request("PUT /compliance/:id", h, arg)
  \/ \E arg \in IdArgs : Request("DELETE /compliance/:id", h, arg)

DocumentRequest(h) ==
  \/ Request("GET /documents", h, NoArg)
  \/ \E arg \in CreateDocumentArgs : Request("POST /documents", h, arg)
  \/ \E arg \in IdArgs : Request("GET /documents/:id", h, arg)
  \/ \E arg \in UpdateDocumentArgs : Request("PUT /documents/:id", h, arg)
  \/ \E arg \in IdArgs : Request("DELETE /documents/:id", h, arg)

RiskScoreRequest(h) ==
  \/ Request("GET /risk-scores", h, NoArg)
  \/ \E arg \in IdArgs : Request("GET /risk-scores/compliance/:id", h, arg)
  \/ \E arg \in CreateRiskScoreArgs : Request("POST /risk-scores", h, arg)
  \/ \E arg \in IdArgs : Request("GET /risk-scores/:id", h, arg)
  \/ \E arg \in UpdateRiskScoreArgs : Request("PUT /risk-scores/:id", h, arg)
  \/ \E arg \in IdArgs : Request("DELETE /risk-scores/:id", h, arg)

OtherRequest(h) ==
  \E route \in {"POST /auth/refresh", "GET /dashboard/stats", "GET /dashboard/activity",
                "POST /ai/analyze", "POST /ai/assess-risk"} :
    Request(route, h, NoArg)

Next ==
  \/ \E h \in StoreHeaders : ComplianceRequest(h)
  \/ \E h \in StoreHeaders : DocumentRequest(h)
  \/ \E h \in StoreHeaders : RiskScoreRequest(h)
  \/ \E h \in StoreHeaders : OtherRequest(h)
  \/ Deliver

Spec == Init /\ [][Next]_vars

----------------------------------------------------------------------------
(* The authentication specification: every protected route under every    *)
(* combination of Authorization and Cookie header, as the clock advances  *)

\* a token signed with another secret, its exp far in the future
ForgedToken ==
  encode(Claims(uuid_to_string(101), EmailOf(101), T0 + 2 * TokenLifetime + Leeway + 1, T0),
         OtherSecret)

\* a token signed with the server's secret under another algorithm
WrongAlgToken ==
  << Jwt([ alg |-> "HS384", sub |-> uuid_to_string(101), email |-> EmailOf(101),
           exp |-> T0 + TokenLifetime, iat |-> T0, key |-> JwtSecret ]) >>

\* text that is no token
MalformedToken == <<Ch("not.a.token")>>

TokenA == IssuedToken(101, T0)

TokenB == IssuedToken(102, T0)

PresentedTokens == {TokenA, TokenB, ForgedToken, WrongAlgToken, MalformedToken, <<>>}

AuthorizationValues ==
  {None}
  \cup {Some(BearerPrefix \o tok) : tok \in PresentedTokens}
  \cup { Some(<<Ch("bearer"), Ch(" ")>> \o TokenA),
         Some(<<Ch("Bearer")>> \o TokenA),
         Some(BearerPrefix \o <<Ch(" ")>> \o TokenA),
         Some(<<Ch("Basic"), Ch(" "), Ch("dXNlcjpwdw")>>),
         Some(<<NonAscii>>) }

CookieValues ==
  {None}
  \cup {Some(AuthTokenName \o <<Ch("=")>> \o tok) : tok \in PresentedTokens}
  \cup { Some(<<Ch("session"), Ch("="), Ch("x"), Ch(";"), Ch(" ")>>
                \o AuthTokenName \o <<Ch("=")>> \o TokenB \o <<Ch(" ")>>),
         Some(<<Ch("Auth_Token"), Ch("=")>> \o TokenB),
         Some(AuthTokenName \o <<Ch(" "), Ch("="), Ch(" ")>> \o TokenB),
         Some(AuthTokenName \o <<Ch("=")>> \o TokenB \o <<Ch("="), Ch("x")>>),
         Some(<<NonAscii>> \o AuthTokenName \o <<Ch("=")>> \o TokenB),
         Some(<<Ch("session"), Ch("="), Ch("x")>>) }

AuthHeaders == {Headers(a, c) : a \in AuthorizationValues, c \in CookieValues}

\* the path id and body sent with a route in this specification
CanonArg(route) ==
  CASE route = "POST /compliance"    -> [id |-> 0, dto |-> CHOOSE d \in CreateComplianceDtos : d.title = "old"]
    [] route = "PUT /compliance/:id" -> [id |-> 1, dto |-> UpdateComplianceDto({"title"})]
    [] route = "POST /documents"     -> [id |-> 0, dto |-> CHOOSE d \in CreateDocumentDtos : d.file_size = 10]
    [] route = "PUT /documents/:id"  -> [id |-> 1, dto |-> CHOOSE d \in UpdateDocumentDtos : is_some(d.ai_analysis)]
    [] route = "POST /risk-scores"   -> [id |-> 0, dto |-> CHOOSE d \in CreateRiskScoreDtos : d.compliance_item_id # GarbageSub]
    [] route = "PUT /risk-scores/:id" -> [id |-> 1, dto |-> CHOOSE d \in UpdateRiskScoreDtos : is_some(d.risk_score)]
    [] route \in {"POST /auth/refresh", "GET /compliance", "GET /documents", "GET /risk-scores",
                  "GET /dashboard/stats", "GET /dashboard/activity",
                  "POST /ai/analyze", "POST /ai/assess-risk"} -> NoArg
    [] OTHER -> [id |-> 1, dto |-> None]

\* the header pairs sent to every protected route
RepHeaders ==
  { NoCredentials, BearerOf(TokenA), CookieOf(TokenB), BearerOf(ForgedToken),
    CookieOf(ForgedToken),
    Headers(Some(BearerPrefix \o TokenA), Some(AuthTokenName \o <<Ch("=")>> \o TokenB)),
    Headers(Some(BearerPrefix \o MalformedToken), Some(AuthTokenName \o <<Ch("=")>> \o TokenB)),
    Headers(Some(<<Ch("Basic"), Ch(" "), Ch("dXNlcjpwdw")>>),
            Some(AuthTokenName \o <<Ch("=")>> \o TokenB)) }

\* the routes sent every pair of AuthHeaders
ProbeRoutes == {"GET /compliance", "POST /compliance"}

\* the server is up at some instant of Times; TokenA and TokenB were
\* issued at T0
InitAuth ==
  /\ config = DefaultConfig
  /\ users = RegisteredUsers
  /\ compliance_items = {}
  /\ documents = {}
  /\ risk_scores = {}
  /\ nextId = 1
  /\ now \in Times
  /\ last = Idle

\* every protected route with the id and body sent to it
CanonRequests == { [route |-> route, arg |-> CanonArg(route)] : route \in ProtectedRoutes }

ProbeRequests == { q \in CanonRequests : q.route \in ProbeRoutes }

RouteSweep ==
  \E q \in CanonRequests, h \in RepHeaders : Request(q.route, h, q.arg)

HeaderSweep ==
  \E q \in ProbeRequests, h \in AuthHeaders : Request(q.route, h, q.arg)

NextAuth == RouteSweep \/ HeaderSweep \/ Deliver

SpecAuth == InitAuth /\ [][NextAuth]_vars

----------------------------------------------------------------------------
(* Vocabulary of the claims *)

\* the three owner-scoped tables
Tables == [compliance |-> compliance_items, documents |-> documents, risk |-> risk_scores]

TableNames == {"compliance", "documents", "risk"}

\* the routes that read, update or delete one resource by its id
GetRoutes == {"GET /compliance/:id", "GET /documents/:id", "GET /risk-scores/:id"}

UpdateRoutes == {"PUT /compliance/:id", "PUT /documents/:id", "PUT /risk-scores/:id"}

DeleteRoutes == {"DELETE /compliance/:id", "DELETE /documents/:id", "DELETE /risk-scores/:id"}

IdRoutes == GetRoutes \cup UpdateRoutes \cup DeleteRoutes

CreateRoutes == {"POST /compliance", "POST /documents", "POST /risk-scores"}

\* the table a route works on
TableOf(route) ==
  IF route \in {"GET /compliance/:id", "PUT /compliance/:id", "DELETE /compliance/:id",
                "POST /compliance", "GET /compliance"} THEN "compliance"
  ELSE IF route \in {"GET /documents/:id", "PUT /documents/:id", "DELETE /documents/:id",
                     "POST /documents", "GET /documents"} THEN "documents"
  ELSE "risk"

NotFoundText(route) ==
  CASE TableOf(route) = "compliance" -> "Compliance item not found"
    [] TableOf(route) = "documents"  -> "Document not found"
    [] OTHER                         -> "Risk score not found"

\* the NotFound response of a route
NotFoundResponse(route) == into_response(AppError("NotFound", NotFoundText(route)))

\* the user a handler acts for: the subject of the claims it received
Caller(l) == uuid_parse_str(unwrap(l.claims).sub).uuid

\* l records a request whose handler ran
Handled(l) == l.phase = "done" /\ l.ran

\* the bodies a route is sent in the store specification
BodiesOf(route) ==
  CASE route = "PUT /compliance/:id"  -> UpdateComplianceDtos
    [] route = "PUT /documents/:id"   -> UpdateDocumentDtos
    [] route = "PUT /risk-scores/:id" -> UpdateRiskScoreDtos
    [] OTHER                          -> {None}

\* the claims a verified token of user u carries
ClaimsOf(u) == Claims(uuid_to_string(u), EmailOf(u), T0 + TokenLifetime, T0)

----------------------------------------------------------------------------
(* C1: tenant isolation *)

\* the request recorded in l2 targets a row that, before the step, is stored
\* under another user than the caller
ForeignTarget(l2, tables) ==
  \E r \in tables[TableOf(l2.route)] : r.id = l2.arg.id /\ r.user_id # Caller(l2)

\* C1: a get, update or delete of a resource by a user who does not own it
\* answers NotFound and leaves every stored row of every table as it was.
C1_TenantIsolation ==
  [][ (last.phase = "idle" /\ Handled(last') /\ last'.route \in IdRoutes
         /\ ForeignTarget(last', Tables))
      => (last'.resp = NotFoundResponse(last'.route) /\ Tables' = Tables) ]_vars

\* a non-empty update of another user's compliance item was answered NotFound
C1_Witness ==
  /\ Handled(last)
  /\ last.route = "PUT /compliance/:id"
  /\ last.arg.dto = UpdateComplianceDto(AllComplianceFields)
  /\ ForeignTarget(last, Tables)
  /\ last.resp.status = 404

----------------------------------------------------------------------------
(* C2: existence is not leaked across tenants *)

\* the database in which no resource with this id was ever stored
DbWithout(db, id) ==
  [db EXCEPT !.compliance_items = {r \in @ : r.id # id},
             !.documents = {r \in @ : r.id # id},
             !.risk_scores = {r \in @ : r.id # id}]

Responses(outcomes) == {o.resp : o \in outcomes}

\* C2: for get, update and delete of id X by user B, the response when X is
\* stored under another user equals the response when X does not exist:
\* between requests this is compared for every route, user, id and body,
\* and the answer to each request made is among those of the state without X.
C2_NoExistenceLeak ==
  /\ \A route \in IdRoutes, b \in UserIds, id \in ResourceIds : \A dto \in BodiesOf(route) :
       (/\ last.phase = "idle"
        /\ \E r \in Tables[TableOf(route)] : r.id = id /\ r.user_id # b)
       => Responses(route_handler(route, DB, ClaimsOf(b), [id |-> id, dto |-> dto], now))
          = Responses(route_handler(route, DbWithout(DB, id), ClaimsOf(b),
                                    [id |-> id, dto |-> dto], now))
  /\ (Handled(last) /\ last.route \in IdRoutes /\ ForeignTarget(last, Tables))
     => last.resp \in Responses(route_handler(last.route, DbWithout(DB, last.arg.id),
                                              unwrap(last.claims), last.arg, last.at))

\* a get of another user's document has been answered
C2_Witness ==
  /\ Handled(last)
  /\ last.route = "GET /documents/:id"
  /\ ForeignTarget(last, Tables)
  /\ last.resp.status = 404

----------------------------------------------------------------------------
(* C3: the owner of a created resource is the subject of the identity *)

TextDocumentDtos == {[title |-> "my doc", content |-> "old"]}

\* C3: every row a create operation adds is stored under the subject of
\* the claims the handler received; this covers the three routed creates
\* and create_from_text.
C3_CreateOwner ==
  [][ /\ (Handled(last') /\ last'.route \in CreateRoutes)
         => /\ \A tn \in TableNames : \A r \in Tables'[tn] \ Tables[tn] :
                 r.user_id = Caller(last')
            /\ last'.resp.status = 201
                 => /\ last'.resp.body[1].user_id = Caller(last')
                    /\ last'.resp.body[1] \in Tables'[TableOf(last'.route)] \ Tables[TableOf(last'.route)]
      /\ \A u \in UserIds, dto \in TextDocumentDtos :
           \A o \in create_from_text(DB, ClaimsOf(u), dto, now) :
             /\ \A r \in o.db.documents \ documents : r.user_id = u
             /\ o.resp.status = 201 => o.db.documents # documents
    ]_vars

\* a risk score was created by the second user, for a compliance item id
C3_Witness ==
  /\ Handled(last)
  /\ last.route = "POST /risk-scores"
  /\ last.resp.status = 201
  /\ Caller(last) = 102
  /\ last.resp.body[1] \in risk_scores

----------------------------------------------------------------------------
(* C4: owner immutability *)

\* C4: a step keeps the id and the user_id of every stored row; a row that
\* is new carries the id the store handed out in that step.
C4_OwnerImmutable ==
  [][ \A tn \in TableNames : \A r2 \in Tables'[tn] :
        \/ \E r \in Tables[tn] : r.id = r2.id /\ r.user_id = r2.user_id
        \/ /\ r2.id = nextId
           /\ nextId' = nextId + 1
           /\ \A tm \in TableNames : \A r \in Tables[tm] : r.id # r2.id ]_vars

\* the owner updated a risk score and the row is still stored under them
C4_Witness ==
  /\ Handled(last)
  /\ last.route = "PUT /risk-scores/:id"
  /\ last.resp.status = 200
  /\ is_some(last.arg.dto.notes)
  /\ \E r \in risk_scores : r.id = last.arg.id /\ r.user_id = Caller(last) /\ r.notes = Some("new")

----------------------------------------------------------------------------
(* The token specification: issue, let time pass, verify *)

\* the server was configured with any lifetime; no token is out yet
InitToken ==
  /\ config \in [jwt_secret : {JwtSecret}, jwt_expiration : JwtExpirationValues]
  /\ users = RegisteredUsers
  /\ compliance_items = {}
  /\ documents = {}
  /\ risk_scores = {}
  /\ nextId = 1
  /\ now \in Times
  /\ last = Idle

\* AuthService::new(config.jwt_secret).generate_token(user_id, email)
Issue(user_id, email) ==
  /\ last.phase = "idle"
  /\ last' = [ phase |-> "issued", user_id |-> user_id, email |-> email, at |-> now,
               token |-> generate_token(config.jwt_secret, user_id, email, now),
               verified |-> Err(AppError("", "")) ]
  /\ UNCHANGED <<config, users, compliance_items, documents, risk_scores, nextId, now>>

\* the wall clock moves on to a later instant
Tick(t) ==
  /\ last.phase = "issued"
  /\ t > now
  /\ now' = t
  /\ UNCHANGED <<config, users, compliance_items, documents, risk_scores, nextId, last>>

\* AuthService::new(config.jwt_secret).validate_token(token)
Verify ==
  /\ last.phase = "issued"
  /\ last' = [last EXCEPT !.phase = "verified",
                          !.verified = validate_token(config.jwt_secret, last.token, now)]
  /\ UNCHANGED <<config, users, compliance_items, documents, risk_scores, nextId, now>>

NextToken ==
  \/ \E user_id \in UserIds, email \in Emails : Issue(user_id, email)
  \/ \E t \in Times : Tick(t)
  \/ Verify

SpecToken == InitToken /\ [][NextToken]_vars

----------------------------------------------------------------------------
(* C5: authentication precedes every protected handler *)

\* the result of validate_token on the token of the request recorded in l
Validated(l) ==
  IF is_some(candidate_token(l.headers))
  THEN validate_token(config.jwt_secret, unwrap(candidate_token(l.headers)), l.at)
  ELSE Err(AppError("Auth", "Missing authentication token"))

\* C5: on every protected route the handler runs only when validate_token
\* succeeded on the request's token, and then with exactly the claims it
\* returned; otherwise the answer is 401, the handler does not run and the
\* store is left as it was.
C5_AuthBeforeHandler ==
  [][ (last.phase = "idle" /\ last'.phase = "done")
      => /\ last'.route \in ProtectedRoutes
         /\ last'.ran => /\ Validated(last').ok
                         /\ last'.claims = Some(Validated(last').val)
         /\ ~Validated(last').ok
              => /\ ~last'.ran
                 /\ last'.claims = None
                 /\ last'.resp.status = 401
                 /\ Tables' = Tables
                 /\ nextId' = nextId ]_vars

\* a delete ran for the holder of a cookie token, with the token's claims
C5_Witness ==
  /\ Handled(last)
  /\ last.route = "DELETE /compliance/:id"
  /\ last.headers = CookieOf(TokenB)
  /\ last.claims = Some(ClaimsOf(102))

----------------------------------------------------------------------------
(* C6: expiry enforcement *)

\* the request's token is one the server signed
ServerSigned(token) ==
  /\ Len(token) = 1
  /\ token[1].ch = "jwt"
  /\ token[1].tok.alg = "HS256"
  /\ token[1].tok.key = config.jwt_secret

\* C6: a token the server signed is rejected at any time after its exp,
\* and a token rejected as expired is accepted at no later time.
C6_ExpiryEnforced ==
  /\ (/\ last.phase = "done"
      /\ is_some(candidate_token(last.headers))
      /\ ServerSigned(unwrap(candidate_token(last.headers)))
      /\ unwrap(candidate_token(last.headers))[1].tok.exp < last.at)
     => (~last.ran /\ last.resp.status = 401)
  /\ \A token \in PresentedTokens, t1 \in Times, t2 \in Times :
       (last.phase = "idle" /\ t1 <= t2 /\ validate_token(config.jwt_secret, token, t1).err
                      = AppError("Jwt", "ExpiredSignature"))
       => ~validate_token(config.jwt_secret, token, t2).ok

\* a handler ran for a token presented one second after its exp
C6_Witness ==
  /\ Handled(last)
  /\ last.headers = BearerOf(TokenA)
  /\ last.at = TokenA[1].tok.exp + 1
  /\ last.claims = Some(ClaimsOf(101))

----------------------------------------------------------------------------
(* C7: issue and verify round trip *)

----------------------------------------------------------------------------
(* C8: forgery resistance *)

\* the claims a forger may write into a token
ForgedClaims ==
  { Claims(sub, email, exp, T0) :
      sub \in {uuid_to_string(u) : u \in UserIds} \cup {GarbageSub},
      email \in Emails,
      exp \in {T0 + TokenLifetime, T0 + 2 * TokenLifetime + Leeway + 1} }

\* C8: a token signed with another secret than the server's never
\* verifies, whatever its claims, and a request carrying one is answered
\* 401 without claims.
C8_ForgeryRejected ==
  /\ last.phase = "idle"
       => \A claims \in ForgedClaims, t \in Times :
            ~validate_token(config.jwt_secret, encode(claims, OtherSecret), t).ok
  /\ (/\ last.phase = "done"
      /\ is_some(candidate_token(last.headers))
      /\ unwrap(candidate_token(last.headers)) = ForgedToken)
     => (~last.ran /\ last.claims = None /\ last.resp.status = 401)

\* a forged token was presented in a cookie and refused
C8_Witness ==
  /\ last.phase = "done"
  /\ last.headers = CookieOf(ForgedToken)
  /\ last.route = "GET /documents"
  /\ ~last.ran
  /\ last.resp.status = 401

----------------------------------------------------------------------------
(* C9: the Authorization header has precedence over the cookie *)

\* the outcome of authenticating with this token alone
AuthenticatedBy(l, token) ==
  LET v == validate_token(config.jwt_secret, token, l.at) IN
  IF v.ok THEN l.ran /\ l.claims = Some(v.val)
  ELSE ~l.ran /\ l.claims = None /\ l.resp.status = 401

\* C9: when the Authorization header yields a Bearer token and a Cookie
\* header is sent too, the header's token alone decides, so a valid header
\* token binds its own identity whatever the cookie holds; with no
\* Authorization header, a valid auth_token cookie is accepted.
C9_HeaderPrecedence ==
  last.phase = "done"
  => /\ (is_some(header_token(last.headers)) /\ last.headers.cookie # None)
          => AuthenticatedBy(last, unwrap(header_token(last.headers)))
     /\ (/\ last.headers.authorization = None
         /\ is_some(cookie_token(last.headers))
         /\ validate_token(config.jwt_secret, unwrap(cookie_token(last.headers)), last.at).ok)
          => /\ last.ran
             /\ last.claims = Some(validate_token(config.jwt_secret,
                                     unwrap(cookie_token(last.headers)), last.at).val)

\* header and cookie carried valid tokens of two users: the header's won
C9_Witness ==
  /\ Handled(last)
  /\ last.headers = Headers(Some(BearerPrefix \o TokenA),
                            Some(AuthTokenName \o <<Ch("=")>> \o TokenB))
  /\ last.claims = Some(ClaimsOf(101))

----------------------------------------------------------------------------
(* C10: permissive fall-through to the cookie *)

\* the Authorization header is missing, is not text, or does not start
\* with "Bearer "
NoBearer(headers) ==
  \/ headers.authorization = None
  \/ ~to_str_ok(unwrap(headers.authorization))
  \/ strip_prefix(unwrap(headers.authorization), BearerPrefix) = None

\* C10: a request whose Authorization header gives no Bearer token is
\* authenticated by its cookie: the cookie's token decides, and only a
\* missing cookie token gives the 401 of a missing credential.
C10_FallThrough ==
  (last.phase = "done" /\ NoBearer(last.headers))
  => IF is_some(cookie_token(last.headers))
     THEN AuthenticatedBy(last, unwrap(cookie_token(last.headers)))
     ELSE /\ ~last.ran
          /\ last.resp = into_response(AppError("Auth", "Missing authentication token"))

\* a Basic Authorization header was passed over and the cookie accepted
C10_Witness ==
  /\ Handled(last)
  /\ last.headers.authorization = Some(<<Ch("Basic"), Ch(" "), Ch("dXNlcjpwdw")>>)
  /\ last.headers.cookie = Some(AuthTokenName \o <<Ch("=")>> \o TokenB)
  /\ last.claims = Some(ClaimsOf(102))

----------------------------------------------------------------------------
(* C11: a request without a credential *)

\* the 401 of a missing credential
MissingCredential == into_response(AppError("Auth", "Missing authentication token"))

\* C11: a request to a protected route whose Authorization header gives no
\* Bearer token and whose Cookie header gives no auth_token is answered
\* with the 401 of a missing credential; the handler does not run and no
\* table changes.
C11_MissingCredential ==
  [][ (/\ last.phase = "idle"
       /\ last'.phase = "done"
       /\ NoBearer(last'.headers)
       /\ ~is_some(cookie_token(last'.headers)))
      => /\ last'.resp = MissingCredential
         /\ last'.resp.status = 401
         /\ ~last'.ran
         /\ last'.claims = None
         /\ Tables' = Tables
         /\ users' = users
         /\ nextId' = nextId ]_vars

\* a create request without any credential was refused
C11_Witness ==
  /\ last.phase = "done"
  /\ last.route = "POST /documents"
  /\ last.headers = NoCredentials
  /\ last.resp = MissingCredential
  /\ ~last.ran

----------------------------------------------------------------------------
(* C12: one outcome for every rejected token *)

\* the request recorded in l carried a token that validate_token rejected
TokenRejected(l) ==
  /\ l.phase = "done"
  /\ is_some(candidate_token(l.headers))
  /\ ~validate_token(config.jwt_secret, unwrap(candidate_token(l.headers)), l.at).ok

\* C12: the response to a request whose token was rejected is the response
\* any other rejected token gets, whatever the cause of either rejection:
\* same status, same error text, same message.
C12_UniformRejection ==
  \A token \in PresentedTokens, t \in Times :
    (TokenRejected(last) /\ ~validate_token(config.jwt_secret, token, t).ok)
    => last.resp = into_response(validate_token(config.jwt_secret, token, t).err)

\* an expired token was refused and the body names the cause
C12_Witness ==
  /\ TokenRejected(last)
  /\ last.headers = BearerOf(TokenA)
  /\ last.resp.status = 401
  /\ last.resp.error = Some("Invalid token")
  /\ last.resp.message = Some(<<"JWT error: ", "ExpiredSignature">>)

----------------------------------------------------------------------------
(* C13: the token is not written to the log *)

\* the text holds the token as a run of consecutive characters
Contains(text, token) ==
  /\ token # <<>>
  /\ \E i \in 1..Len(text) :
       i + Len(token) - 1 <= Len(text) /\ SubSeq(text, i, i + Len(token) - 1) = token

\* C13: whatever the path through the logger and the authentication
\* middleware, no entry written for a request holds the request's
\* candidate token.
C13_TokenNotLogged ==
  (last.phase = "done" /\ is_some(candidate_token(last.headers)))
  => \A i \in 1..Len(last.log) :
       ~Contains(last.log[i].text, unwrap(candidate_token(last.headers)))

\* a request authenticated by its cookie ran, and the logger's entry
\* holds the cookie's token
C13_Witness ==
  /\ Handled(last)
  /\ last.headers = CookieOf(TokenB)
  /\ last.log[1].level = "info"
  /\ Contains(last.log[1].text, TokenB)

----------------------------------------------------------------------------
(* api/auth.rs: register and login, with the password functions of
   services/auth_service.rs *)

\* a password: bcrypt reads its first 72 bytes (prefix) and ignores the
\* bytes after them (suffix); chars is its length as the validator counts it
Password(prefix, suffix, chars) == [prefix |-> prefix, suffix |-> suffix, chars |-> chars]

Passwords ==
  { Password("", "", 0), Password("pw", "", 2),
    Password("password123", "", 11), Password("wrongpassword", "", 13),
    Password("seventy-two bytes", "a", 73), Password("seventy-two bytes", "b", 73) }

\* the salts bcrypt::hash draws
Salts == {"salt1", "salt2"}

\* bcrypt::hash(password, DEFAULT_COST) under a drawn salt
bcrypt_hash(password, salt) ==
  [scheme |-> "2b", cost |-> 12, salt |-> salt, key |-> password.prefix]

\* the Display text of a bcrypt error
BcryptError(kind) ==
  CASE kind = "InvalidHash" -> "bcrypt: invalid hash"
    [] OTHER                -> "bcrypt: random source failed"

\* bcrypt::verify: re-hashes the password under the salt of the hash
bcrypt_verify(password, hash) ==
  IF hash.scheme = "2b"
  THEN [ok |-> TRUE, valid |-> bcrypt_hash(password, hash.salt) = hash, err |-> ""]
  ELSE [ok |-> FALSE, valid |-> FALSE, err |-> BcryptError("InvalidHash")]

\* verify_password answering false for a hash bcrypt cannot parse
verify_password_lenient(password, hash) ==
  LET v == bcrypt_verify(password, hash) IN
  [ok |-> TRUE, valid |-> v.ok /\ v.valid, err |-> AppError("", "")]

\* AuthService::verify_password: map_err(|e| AppError::Internal(format!(
\* "Password verification failed: {}", e)))
verify_password(password, hash) ==
  LET v == bcrypt_verify(password, hash) IN
  [ ok |-> v.ok, valid |-> v.valid,
    err |-> IF v.ok THEN AppError("", "")
            ELSE AppErrorFrom("Internal", "Password verification failed: ", v.err) ]

\* what can go wrong inside the libraries while a handler runs: nothing,
\* bcrypt::hash fails, jsonwebtoken::encode fails
Faults == {"none", "hash", "sign"}

\* AuthService::hash_password
hash_password(password, salt, fault) ==
  IF fault = "hash"
  THEN [ok |-> FALSE, hash |-> bcrypt_hash(password, salt),
        err |-> AppErrorFrom("Internal", "Password hashing failed: ", BcryptError("Rand"))]
  ELSE [ok |-> TRUE, hash |-> bcrypt_hash(password, salt), err |-> AppError("", "")]

\* generate_token as the handlers call it: the error of encode comes back
\* through `?` as AppError::Jwt
generate_token_result(secret, user_id, email, t, fault) ==
  IF fault = "sign"
  THEN [ok |-> FALSE, token |-> <<>>, err |-> AppError("Jwt", "Crypto")]
  ELSE [ok |-> TRUE, token |-> generate_token(secret, user_id, email, t), err |-> AppError("", "")]

\* the validator's email rule on the addresses used here
ValidEmail(email) == email \in Emails

LoginEmails == Emails \cup {"not-an-email"}

\* CreateUserDto::validate
CreateUserDto(email, password, full_name) ==
  [email |-> email, password |-> password, full_name |-> full_name]

create_user_invalid(dto) ==
  IF ~ValidEmail(dto.email) THEN Some("Invalid email address")
  ELSE IF dto.password.chars < 8 THEN Some("Password must be at least 8 characters")
  ELSE IF length(dto.full_name) < 2 THEN Some("Full name must be at least 2 characters")
  ELSE None

\* LoginDto::validate
LoginDto(email, password) == [email |-> email, password |-> password]

login_invalid(dto) ==
  IF ~ValidEmail(dto.email) THEN Some("Invalid email address")
  ELSE IF dto.password.chars < 1 THEN Some("Password is required")
  ELSE None

UserRepository_find_by_email(db, email) == fetch_optional({u \in db.users : u.email = email})

UserRepository_email_exists(db, email) == \E u \in db.users : u.email = email

\* INSERT INTO users .. RETURNING: id, created_at and updated_at are
\* column defaults
UserRepository_create(db, dto, password_hash, t) ==
  LET user == [ id |-> 101 + Cardinality(db.users), email |-> dto.email,
                password_hash |-> password_hash, full_name |-> dto.full_name,
                created_at |-> t, updated_at |-> t ]
  IN  [db |-> [db EXCEPT !.users = @ \cup {user}], row |-> user]

\* Json(AuthResponse) with the Set-Cookie header
AuthReply(status, user, token, return_token) ==
  [ Reply(status, << [ user |-> UserResponse(user),
                       access_token |-> IF return_token THEN Some(token) ELSE None ] >>)
      EXCEPT !.set_cookie = Some(create_auth_cookie(token)) ]

\* register
register(db, return_token, dto, t, salt, fault) ==
  IF is_some(create_user_invalid(dto))
  THEN {Outcome(db, into_response(AppError("Validation", unwrap(create_user_invalid(dto)))))}
  ELSE IF UserRepository_email_exists(db, dto.email)
  THEN {Outcome(db, into_response(AppError("Validation", "Email already registered")))}
  ELSE LET hashed == hash_password(dto.password, salt, fault) IN
       IF ~hashed.ok THEN {Outcome(db, into_response(hashed.err))}
       ELSE LET created == UserRepository_create(db, dto, hashed.hash, t)
                issued  == generate_token_result(config.jwt_secret, created.row.id,
                                                 created.row.email, t, fault)
            IN  IF ~issued.ok THEN {Outcome(created.db, into_response(issued.err))}
                ELSE {Outcome(created.db,
                              AuthReply(201, created.row, issued.token, return_token))}

\* login telling an unknown address from a wrong password
login_telling(db, return_token, dto, t, fault) ==
  IF is_some(login_invalid(dto))
  THEN {Outcome(db, into_response(AppError("Validation", unwrap(login_invalid(dto)))))}
  ELSE LET user == UserRepository_find_by_email(db, dto.email) IN
       IF ~is_some(user)
       THEN {Outcome(db, into_response(AppError("NotFound", "User not found")))}
       ELSE LET checked == verify_password(dto.password, unwrap(user).password_hash) IN
            IF ~checked.ok THEN {Outcome(db, into_response(checked.err))}
            ELSE IF ~checked.valid
            THEN {Outcome(db, into_response(AppError("Auth", "Invalid email or password")))}
            ELSE LET issued == generate_token_result(config.jwt_secret, unwrap(user).id,
                                                     unwrap(user).email, t, fault)
                 IN  IF ~issued.ok THEN {Outcome(db, into_response(issued.err))}
                     ELSE {Outcome(db, AuthReply(200, unwrap(user), issued.token, return_token))}

\* login
login(db, return_token, dto, t, fault) ==
  IF is_some(login_invalid(dto))
  THEN {Outcome(db, into_response(AppError("Validation", unwrap(login_invalid(dto)))))}
  ELSE LET user == UserRepository_find_by_email(db, dto.email) IN
       IF ~is_some(user)
       THEN {Outcome(db, into_response(AppError("Auth", "Invalid email or password")))}
       ELSE LET checked == verify_password(dto.password, unwrap(user).password_hash) IN
            IF ~checked.ok THEN {Outcome(db, into_response(checked.err))}
            ELSE IF ~checked.valid
            THEN {Outcome(db, into_response(AppError("Auth", "Invalid email or password")))}
            ELSE LET issued == generate_token_result(config.jwt_secret, unwrap(user).id,
                                                     unwrap(user).email, t, fault)
                 IN  IF ~issued.ok THEN {Outcome(db, into_response(issued.err))}
                     ELSE {Outcome(db, AuthReply(200, unwrap(user), issued.token, return_token))}

\* the Cookie header a client sends back for a Set-Cookie value: the
\* name=value pair before the first attribute
cookie_jar(set_cookie) == Headers(None, Some(Head(split(set_cookie, Ch(";")))))

----------------------------------------------------------------------------
(* The login specification: register, log in, use the cookie *)

InitLogin ==
  /\ config = DefaultConfig
  /\ users = {}
  /\ compliance_items = {}
  /\ documents = {}
  /\ risk_scores = {}
  /\ nextId = 1
  /\ now = T0
  /\ last = Idle

\* one request to a public route
Answer(route, dto, return_token, fault, outcomes) ==
  /\ last.phase = "idle"
  /\ \E o \in outcomes :
       /\ users' = o.db.users
       /\ last' = [ phase |-> "done", route |-> route, dto |-> dto,
                    return_token |-> return_token, fault |-> fault, at |-> now,
                    resp |-> o.resp ]
  /\ UNCHANGED <<config, compliance_items, documents, risk_scores, nextId, now>>

Register(dto, return_token, salt, fault) ==
  Answer("POST /auth/register", dto, return_token, fault,
         register(DB, return_token, dto, now, salt, fault))

Login(dto, return_token, fault) ==
  Answer("POST /auth/login", dto, return_token, fault,
         login(DB, return_token, dto, now, fault))

\* the client that was handed a cookie asks for its dashboard
FollowUp ==
  /\ last.phase = "done"
  /\ is_some(last.resp.set_cookie)
  /\ \E o \in protected_route("GET /dashboard/stats", cookie_jar(unwrap(last.resp.set_cookie)),
                              DB, NoArg, now) :
       last' = [ phase |-> "followed", login |-> last, ran |-> o.ran,
                 claims |-> o.claims, resp |-> o.resp ]
  /\ UNCHANGED <<config, users, compliance_items, documents, risk_scores, nextId, now>>

Settle ==
  /\ last.phase = "followed"
  /\ last' = Idle
  /\ UNCHANGED <<config, users, compliance_items, documents, risk_scores, nextId, now>>

RegisterDtos ==
  { CreateUserDto(email, password, full_name) :
      email \in LoginEmails, password \in Passwords, full_name \in {"ab", ""} }

LoginDtos == { LoginDto(email, password) : email \in LoginEmails, password \in Passwords }

NextLogin ==
  \/ \E dto \in RegisterDtos, return_token \in BOOLEAN, salt \in Salts, fault \in Faults :
       Register(dto, return_token, salt, fault)
  \/ \E dto \in LoginDtos, return_token \in BOOLEAN, fault \in Faults :
       Login(dto, return_token, fault)
  \/ FollowUp
  \/ Settle
  \/ Deliver

SpecLogin == InitLogin /\ [][NextLogin]_vars

----------------------------------------------------------------------------
(* C14: login does not tell whether an address is registered *)

\* the database in which nobody registered this address
DbWithoutEmail(db, email) == [db EXCEPT !.users = {u \in @ : u.email # email}]

BadLogin == into_response(AppError("Auth", "Invalid email or password"))

\* the password is not the one stored for the address
WrongPassword(db, dto) ==
  \E u \in db.users :
    /\ u.email = dto.email
    /\ verify_password(dto.password, u.password_hash).ok
    /\ ~verify_password(dto.password, u.password_hash).valid

\* C14: for a well-formed login request, the response when the address is
\* registered and the password is wrong equals the response when nobody
\* registered the address: status 401, error and message the same.
C14_LoginEnumeration ==
  /\ last.phase = "idle"
       => \A dto \in LoginDtos, return_token \in BOOLEAN, fault \in Faults :
            (login_invalid(dto) = None /\ WrongPassword(DB, dto))
            => /\ Responses(login(DB, return_token, dto, now, fault)) = {BadLogin}
               /\ Responses(login(DbWithoutEmail(DB, dto.email), return_token, dto, now, fault))
                    = {BadLogin}
  /\ (/\ last.phase = "done"
      /\ last.route = "POST /auth/login"
      /\ login_invalid(last.dto) = None
      /\ \/ WrongPassword(DB, last.dto)
         \/ ~UserRepository_email_exists(DB, last.dto.email))
     => (last.resp = BadLogin /\ last.resp.status = 401)

\* the two cases have both been answered: here, a wrong password for a
\* registered address while the other address is unknown
C14_Witness ==
  /\ last.phase = "done"
  /\ last.route = "POST /auth/login"
  /\ WrongPassword(DB, last.dto)
  /\ \E email \in Emails : ~UserRepository_email_exists(DB, email)
  /\ last.resp = BadLogin

----------------------------------------------------------------------------
(* C15: credential round trip through registration and login *)

\* the stored hash is what registering with password p stores
RegisteredWith(u, p) ==
  /\ create_user_invalid(CreateUserDto(u.email, p, u.full_name)) = None
  /\ u.password_hash = bcrypt_hash(p, u.password_hash.salt)

\* C15: the hash stored for p verifies p and no other password; after a registration
\* with password p, login with q answers 200 with an auth_token cookie
\* exactly when q = p and 401 otherwise, and the cookie's token
\* authenticates the next protected request as that user.
C15_CredentialRoundTrip ==
  /\ \A u \in users, p \in Passwords, q \in Passwords :
       RegisteredWith(u, p) => (verify_password(q, u.password_hash).valid <=> (q = p))
  /\ last.phase = "idle"
       => \A u \in users, p \in Passwords, q \in Passwords :
            (RegisteredWith(u, p) /\ login_invalid(LoginDto(u.email, q)) = None)
            => \A o \in login(DB, FALSE, LoginDto(u.email, q), now, "none") :
                 IF q = p
                 THEN o.resp.status = 200 /\ is_some(o.resp.set_cookie)
                 ELSE o.resp.status = 401
  /\ (last.phase = "followed" /\ last.login.route = "POST /auth/login")
       => /\ last.ran
          /\ \E u \in users : /\ u.email = last.login.dto.email
                              /\ unwrap(last.claims).sub = uuid_to_string(u.id)
                              /\ unwrap(last.claims).email = u.email

\* a login with a password that differs from the registered one after
\* its 72nd byte was answered 200 with a cookie
C15_Witness ==
  /\ last.phase = "done"
  /\ last.route = "POST /auth/login"
  /\ last.dto.password = Password("seventy-two bytes", "b", 73)
  /\ \E u \in users : u.email = last.dto.email
                       /\ RegisteredWith(u, Password("seventy-two bytes", "a", 73))
  /\ last.resp.status = 200
  /\ is_some(last.resp.set_cookie)

----------------------------------------------------------------------------
(* C16: list is owner-scoped *)

ListRoutes == {"GET /compliance", "GET /documents", "GET /risk-scores"}

\* the elements of a sequence
Range(s) == {s[i] : i \in DOMAIN s}

\* the rows of a route's table that user u owns
OwnedRows(route, u) == {r \in Tables[TableOf(route)] : r.user_id = u}

\* a row as the list of its route shows it: list_documents maps each row
\* to its DocumentResponse, the other lists return the rows
Listed(route, r) == IF TableOf(route) = "documents" THEN DocumentResponse(r) ELSE r

\* C16: a list request whose handler ran answers 200 with exactly the rows
\* of its table whose user_id is the caller's subject, each of them once
\* (a document as its DocumentResponse):
\* no row of another user, and none of the caller's missing; the list of
\* the risk scores of one compliance item answers exactly the caller's
\* scores of that item
C16_ListScoped ==
  /\ Handled(last) /\ last.route \in ListRoutes =>
       /\ last.resp.status = 200
       /\ Range(last.resp.body) =
            {Listed(last.route, r) : r \in OwnedRows(last.route, Caller(last))}
       /\ Len(last.resp.body) = Cardinality(OwnedRows(last.route, Caller(last)))
  /\ Handled(last) /\ last.route = "GET /risk-scores/compliance/:id" =>
       LET own == {r \in risk_scores : /\ r.user_id = Caller(last)
                                       /\ r.compliance_item_id = last.arg.id} IN
       /\ last.resp.status = 200
       /\ Range(last.resp.body) = own
       /\ Len(last.resp.body) = Cardinality(own)

\* a list answered with a row of the caller while the same table holds a
\* row of another user
C16_Witness ==
  /\ Handled(last) /\ last.route \in ListRoutes
  /\ Len(last.resp.body) >= 1
  /\ \E r \in Tables[TableOf(last.route)] : r.user_id # Caller(last)

----------------------------------------------------------------------------
(* C17: list order *)

\* the column a list route orders by, as the listed rows carry it
OrderColumn(route) == IF TableOf(route) = "documents" THEN "uploaded_at" ELSE "created_at"

\* C17: a list answers the caller's rows by creation time descending, rows
\* of equal creation time by id ascending
C17_ListOrder ==
  Handled(last) /\ last.route \in ListRoutes /\ last.resp.status = 200 =>
    LET body == last.resp.body
        col  == OrderColumn(last.route) IN
    \A i, j \in DOMAIN body :
      i < j => \/ body[i][col] > body[j][col]
               \/ body[i][col] = body[j][col] /\ body[i].id < body[j].id

\* a list answered two rows of equal creation time, the greater id first
C17_Witness ==
  /\ Handled(last) /\ last.route \in ListRoutes /\ last.resp.status = 200
  /\ Len(last.resp.body) = 2
  /\ last.resp.body[1][OrderColumn(last.route)] = last.resp.body[2][OrderColumn(last.route)]
  /\ last.resp.body[1].id > last.resp.body[2].id

----------------------------------------------------------------------------
(* The update specification: one user's requests to the store while the
   clock advances, so that NOW() at an update differs from NOW() at the
   insert *)

OwnerHeaders == {BearerOf(IssuedToken(101, T0))}

\* the clock moves on between two requests
Advance ==
  /\ last.phase = "idle"
  /\ now = T0
  /\ now' = T0 + 1
  /\ UNCHANGED <<config, users, compliance_items, documents, risk_scores, nextId, last>>

NextUpdate ==
  \/ \E h \in OwnerHeaders : ComplianceRequest(h)
  \/ \E h \in OwnerHeaders : DocumentRequest(h)
  \/ \E h \in OwnerHeaders : RiskScoreRequest(h)
  \/ Advance
  \/ Deliver

SpecUpdate == Init /\ [][NextUpdate]_vars

----------------------------------------------------------------------------
(* C18: partial update is a merge *)

\* the fields present in an update payload
Present(dto) == {f \in DOMAIN dto : is_some(dto[f])}

\* the columns of a table that admit NULL, stored as options
NullableOf(tn) ==
  CASE tn = "compliance" -> ComplianceNullable
    [] tn = "documents"  -> {"extracted_text", "ai_analysis"}
    [] OTHER             -> {"notes", "ai_confidence", "ai_reasoning"}

\* the value column f holds once payload dto, with f present, is applied
Supplied(tn, dto, f) == IF f \in NullableOf(tn) THEN dto[f] ELSE unwrap(dto[f])

\* this step is an update of a stored row of the caller that succeeded
OwnerUpdate ==
  /\ last.phase = "idle" /\ Handled(last') /\ last'.route \in UpdateRoutes
  /\ last'.resp.status = 200

\* the row the update is addressed to, before and after the step
Target == CHOOSE r \in Tables[TableOf(last'.route)] : r.id = last'.arg.id

TargetAfter == CHOOSE r \in Tables'[TableOf(last'.route)] : r.id = last'.arg.id

----------------------------------------------------------------------------
(* C19: empty update *)

\* this step is an update request with no field present, whose handler ran
EmptyUpdate ==
  /\ last.phase = "idle" /\ Handled(last') /\ last'.route \in UpdateRoutes
  /\ Present(last'.arg.dto) = {}

\* C19: an update with no field present answers 200 with the current row
\* when the caller owns a row of that id, and NotFound when no row has the
\* id or the row belongs to another user; in both cases every table is as
\* it was
C19_EmptyUpdate ==
  [][ EmptyUpdate =>
        LET own == {r \in Tables[TableOf(last'.route)] :
                      r.id = last'.arg.id /\ r.user_id = Caller(last')} IN
        /\ Tables' = Tables
        /\ own # {} => /\ last'.resp.status = 200
                       /\ last'.resp.body \in {Some(r) : r \in own}
        /\ own = {} => last'.resp = NotFoundResponse(last'.route) ]_vars

\* an empty update of a compliance item of the caller was answered 200
C19_Witness ==
  /\ Handled(last) /\ last.route = "PUT /compliance/:id"
  /\ Present(last.arg.dto) = {}
  /\ last.resp.status = 200
  /\ \E r \in compliance_items : r.id = last.arg.id /\ r.user_id = Caller(last)

----------------------------------------------------------------------------
(* C20: failure-to-status mapping *)

\* this step answers a register or login request
AuthAnswer ==
  /\ last.phase = "idle" /\ last'.phase = "done"
  /\ last'.route \in {"POST /auth/register", "POST /auth/login"}

\* the request of this step is well-formed and gets as far as issuing the
\* token: a new address at register, the right password at login
ReachesSigning ==
  IF last'.route = "POST /auth/register"
  THEN /\ create_user_invalid(last'.dto) = None
       /\ ~UserRepository_email_exists(DB, last'.dto.email)
       /\ last'.fault # "hash"
  ELSE /\ login_invalid(last'.dto) = None
       /\ \E u \in users : /\ u.email = last'.dto.email
                           /\ verify_password(last'.dto.password, u.password_hash).valid

\* C20: the status of a failure is fixed by its category: a payload that
\* fails validation 400, a login with an unknown address or a wrong
\* password 401, a hashing failure 500 and a signing failure 500
C20_FailureStatus ==
  [][ AuthAnswer =>
        /\ (last'.route = "POST /auth/register" /\ is_some(create_user_invalid(last'.dto)))
             => last'.resp.status = 400
        /\ (last'.route = "POST /auth/login" /\ is_some(login_invalid(last'.dto)))
             => last'.resp.status = 400
        /\ (last'.route = "POST /auth/login" /\ login_invalid(last'.dto) = None
              /\ ~ReachesSigning)
             => last'.resp.status = 401
        /\ (last'.route = "POST /auth/register" /\ create_user_invalid(last'.dto) = None
              /\ ~UserRepository_email_exists(DB, last'.dto.email)
              /\ last'.fault = "hash")
             => last'.resp.status = 500
        /\ (ReachesSigning /\ last'.fault = "sign") => last'.resp.status = 500 ]_vars

\* a login with the right password whose token could not be signed was
\* answered 401 "Invalid token"
C20_Witness ==
  /\ last.phase = "done" /\ last.route = "POST /auth/login"
  /\ last.fault = "sign"
  /\ \E u \in users : /\ u.email = last.dto.email
                      /\ verify_password(last.dto.password, u.password_hash).valid
  /\ last.resp.status = 401
  /\ last.resp.error = Some("Invalid token")

----------------------------------------------------------------------------
(* C21: the body of a hashing, signing or storage failure *)

\* the Display texts of the library errors that occur in the model
LibraryErrorTexts == {BcryptError("InvalidHash"), BcryptError("Rand"), "Crypto"}

\* l records a register or login request that failed in bcrypt::hash
HashingFailed(l) ==
  /\ l.phase = "done" /\ l.route = "POST /auth/register"
  /\ l.fault = "hash" /\ l.resp.status = 500

\* l records a register or login request that failed in jsonwebtoken::encode
SigningFailed(l) ==
  /\ l.phase = "done" /\ l.route \in {"POST /auth/register", "POST /auth/login"}
  /\ l.fault = "sign" /\ l.resp.error = Some("Invalid token")

\* C21: the body of the response to a hashing or signing failure holds
\* generic text only: neither its error field nor any part of its message
\* field is the text of the library's error
C21_GenericFailureBody ==
  HashingFailed(last) \/ SigningFailed(last) =>
    /\ unwrap(last.resp.error) \notin LibraryErrorTexts
    /\ \A i \in DOMAIN unwrap(last.resp.message) :
         unwrap(last.resp.message)[i] \notin LibraryErrorTexts

\* a registration that failed in bcrypt::hash was answered with the text
\* of the bcrypt error in the message field
C21_Witness ==
  /\ HashingFailed(last)
  /\ last.resp.error = Some("Internal server error")
  /\ last.resp.message =
       Some(<<"Internal server error: ", "Password hashing failed: ", BcryptError("Rand")>>)

----------------------------------------------------------------------------
(* The stored-hash specification: logins against credential records whose
   password_hash column was written by any means, so that it may hold text
   that is no bcrypt hash *)

\* text in the password_hash column that bcrypt cannot parse: an empty
\* string, a password stored in the clear
MalformedHashes ==
  { [scheme |-> "", cost |-> 0, salt |-> "", key |-> ""],
    [scheme |-> "plain", cost |-> 0, salt |-> "", key |-> "password123"] }

StoredHashes ==
  {bcrypt_hash(Password("password123", "", 11), salt) : salt \in Salts} \cup MalformedHashes

InitStored ==
  /\ config = DefaultConfig
  /\ users \in { { [ id |-> 101 + i, email |-> EmailOf(101 + i), password_hash |-> h[i + 1],
                     full_name |-> "name", created_at |-> T0, updated_at |-> T0 ]
                   : i \in 0..1 } : h \in [1..2 -> StoredHashes] }
  /\ compliance_items = {}
  /\ documents = {}
  /\ risk_scores = {}
  /\ nextId = 1
  /\ now = T0
  /\ last = Idle

NextStored ==
  \/ \E dto \in LoginDtos, return_token \in BOOLEAN, fault \in Faults :
       Login(dto, return_token, fault)
  \/ FollowUp
  \/ Settle
  \/ Deliver

SpecStored == InitStored /\ [][NextStored]_vars

----------------------------------------------------------------------------
(* C22: verify_password on a hash that is no hash *)

\* C22: verify_password fails with the internal error for a hash bcrypt
\* cannot parse and answers a boolean for every other hash; a well-formed
\* login against a record with such a hash is answered 500 "Internal server
\* error" without a cookie and without a token in the body
C22_InvalidHashFails ==
  /\ last.phase = "idle" =>
       \A p \in Passwords, h \in StoredHashes :
         LET v == verify_password(p, h) IN
         /\ v.ok <=> h \notin MalformedHashes
         /\ ~v.ok => v.err.kind = "Internal" /\ ~v.valid
  /\ ( /\ last.phase = "done" /\ last.route = "POST /auth/login"
       /\ login_invalid(last.dto) = None
       /\ \E u \in users : u.email = last.dto.email /\ u.password_hash \in MalformedHashes )
     => /\ last.resp.status = 500
        /\ last.resp.error = Some("Internal server error")
        /\ last.resp.set_cookie = None
        /\ last.resp.body = <<>>

\* a login with the password that is stored in the clear was answered 500
C22_Witness ==
  /\ last.phase = "done" /\ last.route = "POST /auth/login"
  /\ last.dto.password = Password("password123", "", 11)
  /\ \E u \in users : /\ u.email = last.dto.email
                      /\ u.password_hash.scheme = "plain"
                      /\ u.password_hash.key = "password123"
  /\ last.resp.status = 500

----------------------------------------------------------------------------
(* Concurrent requests: two connections are served at once. A protected
   request passes auth_middleware, then its handler runs its one statement
   against the pool; the steps of the two requests interleave freely *)

Slots == {1, 2}

Free == [stage |-> "free"]

\* nothing in flight, no refresh completed yet
Serving(reqs, superseded) == [phase |-> "serving", reqs |-> reqs, superseded |-> superseded]

InitServing ==
  /\ config = DefaultConfig
  /\ users = RegisteredUsers
  /\ compliance_items = {}
  /\ documents = {}
  /\ risk_scores = {}
  /\ nextId = 1
  /\ now = T0
  /\ last = Serving([i \in Slots |-> Free], {})

\* a request arrives on connection i
Arrive(i, route, headers, arg) ==
  /\ last.reqs[i].stage = "free"
  /\ last' = [last EXCEPT !.reqs[i] =
                [stage |-> "arrived", route |-> route, headers |-> headers, arg |-> arg]]
  /\ UNCHANGED <<config, users, compliance_items, documents, risk_scores, nextId, now>>

\* auth_middleware on connection i: the claims go into the request, or the
\* request is answered 401
Authenticate(i) ==
  /\ last.reqs[i].stage = "arrived"
  /\ LET r == last.reqs[i]
         auth == auth_middleware(r.headers, now) IN
     last' = [last EXCEPT !.reqs[i] =
                IF auth.ok
                THEN [ stage |-> "authenticated", route |-> r.route, headers |-> r.headers,
                       arg |-> r.arg, claims |-> auth.val ]
                ELSE [ stage |-> "responded", route |-> r.route, headers |-> r.headers,
                       arg |-> r.arg, ran |-> FALSE, resp |-> into_response(auth.err) ]]
  /\ UNCHANGED <<config, users, compliance_items, documents, risk_scores, nextId, now>>

\* a store one owner has filled: user 101 created compliance item 1 and
\* then risk score 2 for it, both at T0
SeededStore ==
  LET item  == ComplianceRepository_create(
                 Db(RegisteredUsers, {}, {}, {}, 1), 101,
                 CHOOSE d \in CreateComplianceDtos : d.title = "old", T0)
      score == RiskScoreRepository_create(
                 item.db, 101,
                 CHOOSE d \in CreateRiskScoreDtos : d.compliance_item_id = uuid_to_string(1), T0)
  IN  score.db

\* a handler that works on the rows as they were when the store was seeded
\* and writes the tables back whole: read, modify in memory, write
Execute_snapshot(i) ==
  /\ last.reqs[i].stage = "authenticated"
  /\ LET r == last.reqs[i] IN
     \E o \in route_handler(r.route, SeededStore, r.claims, r.arg, now) :
       /\ users' = o.db.users
       /\ compliance_items' = o.db.compliance_items
       /\ documents' = o.db.documents
       /\ risk_scores' = o.db.risk_scores
       /\ nextId' = o.db.nextId
       /\ last' = [last EXCEPT
                     !.reqs[i] = [ stage |-> "responded", route |-> r.route,
                                   headers |-> r.headers, arg |-> r.arg, ran |-> TRUE,
                                   resp |-> o.resp ]]
  /\ UNCHANGED <<config, now>>

\* next.run(request) on connection i: the handler and its statement; a
\* refresh that succeeded leaves the token it was asked with superseded
Execute(i) ==
  /\ last.reqs[i].stage = "authenticated"
  /\ LET r == last.reqs[i] IN
     \E o \in route_handler(r.route, DB, r.claims, r.arg, now) :
       /\ o.db.nextId <= MaxIds + 1
       /\ users' = o.db.users
       /\ compliance_items' = o.db.compliance_items
       /\ documents' = o.db.documents
       /\ risk_scores' = o.db.risk_scores
       /\ nextId' = o.db.nextId
       /\ last' = [last EXCEPT
                     !.reqs[i] = [ stage |-> "responded", route |-> r.route,
                                   headers |-> r.headers, arg |-> r.arg, ran |-> TRUE,
                                   resp |-> o.resp ],
                     !.superseded =
                        IF r.route = "POST /auth/refresh" /\ o.resp.status = 200
                        THEN @ \cup {unwrap(candidate_token(r.headers))} ELSE @]
  /\ UNCHANGED <<config, now>>

\* the response of connection i leaves the server
Respond(i) ==
  /\ last.reqs[i].stage = "responded"
  /\ last' = [last EXCEPT !.reqs[i] = Free]
  /\ UNCHANGED <<config, users, compliance_items, documents, risk_scores, nextId, now>>

\* the clock moves on while requests are in flight
Pass(t) ==
  /\ last.phase = "serving"
  /\ t > now
  /\ now' = t
  /\ UNCHANGED <<config, users, compliance_items, documents, risk_scores, nextId, last>>

\* the session specification: the holder of a token refreshes, reads and
\* creates while the clock runs up to and past the expiry of the token
SessionHeaders == {BearerOf(TokenA), CookieOf(TokenA), BearerOf(ForgedToken), NoCredentials}

SessionTimes == {T0 + 1, T0 + TokenLifetime, T0 + TokenLifetime + Leeway + 1}

SessionCreateArgs == { arg \in CreateComplianceArgs : arg.dto.title = "old" }

SessionRequest(i, h) ==
  \/ Arrive(i, "POST /auth/refresh", h, NoArg)
  \/ Arrive(i, "GET /compliance", h, NoArg)
  \/ \E arg \in SessionCreateArgs : Arrive(i, "POST /compliance", h, arg)

NextSession ==
  \/ \E i \in Slots, h \in SessionHeaders : SessionRequest(i, h)
  \/ \E i \in Slots : Authenticate(i)
  \/ \E i \in Slots : Execute(i)
  \/ \E i \in Slots : Respond(i)
  \/ \E t \in SessionTimes : Pass(t)

SpecSession == InitServing /\ [][NextSession]_vars

----------------------------------------------------------------------------
(* C23: verification is stateless, there is no revocation *)

\* what the token, the secret and the time alone say: the server's HS256
\* signature on a single token, and an exp not more than the leeway behind
Acceptable(token, t) == ServerSigned(token) /\ token[1].tok.exp + Leeway >= t

\* the step in which auth_middleware decides on the request of connection i
Decides(i) == last.reqs[i].stage = "arrived" /\ last'.reqs[i].stage # "arrived"

\* C23: whatever happened before and whatever the other connection is
\* doing, the middleware lets a request through exactly when its token is
\* acceptable by token, secret and time, and then with the token's claims;
\* a token that a completed refresh replaced, or that the other connection
\* presents at the same time, is treated like any other
C23_StatelessVerification ==
  [][ \A i \in Slots :
        Decides(i) =>
          LET token == candidate_token(last.reqs[i].headers) IN
          /\ last'.reqs[i].stage = "authenticated"
               <=> (is_some(token) /\ Acceptable(unwrap(token), now))
          /\ last'.reqs[i].stage = "authenticated"
               => last'.reqs[i].claims =
                    Claims(unwrap(token)[1].tok.sub, unwrap(token)[1].tok.email,
                           unwrap(token)[1].tok.exp, unwrap(token)[1].tok.iat)
          /\ last'.reqs[i].stage # "authenticated"
               => /\ last'.reqs[i].stage = "responded"
                  /\ last'.reqs[i].resp.status = 401 ]_vars

\* after a refresh with a token was answered 200 at a later time, both
\* connections are authenticated with that same token at once
C23_Witness ==
  /\ last.phase = "serving"
  /\ TokenA \in last.superseded
  /\ now > T0
  /\ \A i \in Slots : /\ last.reqs[i].stage = "authenticated"
                      /\ candidate_token(last.reqs[i].headers) = Some(TokenA)

----------------------------------------------------------------------------
(* C24: cookie extraction *)

\* the pairs of a Cookie header: cut at the semicolons, whitespace around
\* each pair removed
CookiePairs(cookie) ==
  LET pieces == split(cookie, Ch(";")) IN [k \in DOMAIN pieces |-> trim(pieces[k])]

\* pair is name=value with the name auth_token: the name is everything
\* before the first "="
NamedAuthToken(pair) == Len(pair) >= 2 /\ pair[1] = Ch("auth_token") /\ pair[2] = Ch("=")

\* the value of a pair: everything after the first "="
ValueOf(pair) == SubSeq(pair, 3, Len(pair))

\* the value of the first pair named auth_token, none without such a pair
\* or when the header is not text
CookieNamedAuthToken(headers) ==
  IF ~is_some(headers.cookie) \/ ~to_str_ok(unwrap(headers.cookie)) THEN None
  ELSE LET pairs == CookiePairs(unwrap(headers.cookie))
           named == {k \in DOMAIN pairs : NamedAuthToken(pairs[k])} IN
       IF named = {} THEN None
       ELSE Some(ValueOf(pairs[CHOOSE k \in named : \A m \in named : k <= m]))

\* the same, with a pair whose value holds a further "=" passed over like
\* a pair of another name
CookieNamedAuthTokenPlain(headers) ==
  IF ~is_some(headers.cookie) \/ ~to_str_ok(unwrap(headers.cookie)) THEN None
  ELSE LET pairs == CookiePairs(unwrap(headers.cookie))
           named == {k \in DOMAIN pairs :
                       /\ NamedAuthToken(pairs[k])
                       /\ \A m \in DOMAIN ValueOf(pairs[k]) : ValueOf(pairs[k])[m] # Ch("=")} IN
       IF named = {} THEN None
       ELSE Some(ValueOf(pairs[CHOOSE k \in named : \A m \in named : k <= m]))

\* l records a request answered as its candidate token c demands: without
\* a candidate the missing-credential response, with one the handler runs
\* exactly when validate_token accepts it
AnsweredFor(l, c) ==
  IF ~is_some(c) THEN l.resp = MissingCredential /\ ~l.ran
  ELSE l.ran <=> validate_token(config.jwt_secret, unwrap(c), l.at).ok

\* C24 as stated: when the Authorization header yields no candidate, the
\* candidate is the value of the cookie pair named exactly auth_token, pairs
\* trimmed, other names ignored, and none if no pair has that name
C24_CookieExtraction ==
  (last.phase = "done" /\ ~is_some(header_token(last.headers))) =>
    /\ candidate_token(last.headers) = CookieNamedAuthToken(last.headers)
    /\ AnsweredFor(last, CookieNamedAuthToken(last.headers))

\* C24 amended: as above, where a pair named auth_token whose value holds
\* a further "=" is ignored like a pair of another name
C24_CookieExtraction_Amended ==
  (last.phase = "done" /\ ~is_some(header_token(last.headers))) =>
    /\ candidate_token(last.headers) = CookieNamedAuthTokenPlain(last.headers)
    /\ AnsweredFor(last, CookieNamedAuthTokenPlain(last.headers))

\* the token of the second pair, which has a blank on either side, let a
\* handler run for its holder
C24_Witness ==
  /\ Handled(last)
  /\ last.headers.authorization = None
  /\ last.headers.cookie = Some(<<Ch("session"), Ch("="), Ch("x"), Ch(";"), Ch(" ")>>
                                  \o AuthTokenName \o <<Ch("=")>> \o TokenB \o <<Ch(" ")>>)
  /\ last.claims = Some(ClaimsOf(102))

----------------------------------------------------------------------------
(* C25: no fallback after verification *)

\* C25: a request whose Authorization header yields a token is decided on
\* that token alone: if validate_token refuses it, the answer is the 401
\* of that refusal and no handler runs, whatever the Cookie header holds;
\* if it is accepted, the handler runs under its claims
C25_NoFallback ==
  (last.phase = "done" /\ is_some(header_token(last.headers))) =>
    LET v == validate_token(config.jwt_secret, unwrap(header_token(last.headers)), last.at) IN
    /\ ~v.ok => /\ ~last.ran
                /\ last.claims = None
                /\ last.resp.status = 401
                /\ last.resp = into_response(v.err)
    /\ v.ok => last.ran /\ last.claims = Some(v.val)

\* a request with a forged bearer token and a valid auth_token cookie was
\* answered 401
C25_Witness ==
  /\ last.phase = "done"
  /\ last.headers = Headers(Some(BearerPrefix \o ForgedToken),
                            Some(AuthTokenName \o <<Ch("=")>> \o TokenB))
  /\ validate_token(config.jwt_secret, TokenB, last.at).ok
  /\ ~last.ran
  /\ last.resp.status = 401

----------------------------------------------------------------------------
(* The statement specification: ComplianceRepository::update builds its
   UPDATE statement for a payload *)

\* payloads with every combination of present fields, each field with
\* values of its own
StatementDtos ==
  { [ title |-> ti, description |-> de, risk_level |-> rl, status |-> st, due_date |-> dd ] :
      ti \in {None, Some("title one"), Some("title two")},
      de \in {None, Some("description one"), Some("description two")},
      rl \in {None, Some("high"), Some("critical")},
      st \in {None, Some("completed"), Some("in_progress")},
      dd \in {None, Some(T0 + 1), Some(T0 + 2)} }

\* the statement is put together for dto: the SET clauses with their
\* placeholders, and the values bound after id and user_id
Prepare(dto) ==
  /\ last.phase = "idle"
  /\ last' = [ phase |-> "prepared", dto |-> dto,
               clauses |-> set_clauses(dto, 1, 3),
               binds |-> bound_values(dto, 1) ]
  /\ UNCHANGED <<config, users, compliance_items, documents, risk_scores, nextId, now>>

\* the statement was sent; the next payload can come
Sent ==
  /\ last.phase = "prepared"
  /\ last' = Idle
  /\ UNCHANGED <<config, users, compliance_items, documents, risk_scores, nextId, now>>

NextStatement ==
  \/ \E dto \in StatementDtos : Prepare(dto)
  \/ Sent

SpecStatement == Init /\ [][NextStatement]_vars

----------------------------------------------------------------------------
(* C26: the dynamic compliance update statement *)

\* the position of a field in the fixed order of the if-blocks
FieldIndex(f) == CHOOSE k \in 1..Len(ComplianceFields) : ComplianceFields[k] = f

\* C26: for every set of present fields the SET list names exactly the
\* present fields, in the fixed order title, description, risk_level,
\* status, due_date; the placeholders run $3, $4, .. without a gap; as many
\* values are bound after id and user_id as there are placeholders; and the
\* value at the position of each placeholder is the value of its own field
C26_StatementParameters ==
  last.phase = "prepared" =>
    LET c == last.clauses
        b == last.binds IN
    /\ {c[i].col : i \in DOMAIN c} = Present(last.dto)
    /\ Len(c) = Cardinality(Present(last.dto))
    /\ \A i, j \in DOMAIN c : i < j => FieldIndex(c[i].col) < FieldIndex(c[j].col)
    /\ \A i \in DOMAIN c : c[i].param = i + 2
    /\ Len(b) = Len(c)
    /\ \A i \in DOMAIN c : b[c[i].param - 2] = unwrap(last.dto[c[i].col])

\* the statement for risk_level, status and due_date without title and
\* description: three clauses numbered $3, $4, $5
C26_Witness ==
  /\ last.phase = "prepared"
  /\ Present(last.dto) = {"risk_level", "status", "due_date"}
  /\ last.clauses = << [col |-> "risk_level", param |-> 3], [col |-> "status", param |-> 4],
                       [col |-> "due_date", param |-> 5] >>
  /\ Len(last.binds) = 3

----------------------------------------------------------------------------
(* The registration race: two register requests are served at once. The
   handler awaits the pool twice, for email_exists and for create, and
   holds no transaction across the two statements *)

\* the error of the INSERT when the email is already in the table: the
\* users table keeps email unique (models/user.rs, UserRepository::create)
DuplicateEmail ==
  AppError("Database", "duplicate key value violates unique constraint users_email_key")

\* UserRepository::create against the table with its unique email column
UserRepository_create_unique(db, dto, password_hash, t) ==
  IF \E u \in db.users : u.email = dto.email
  THEN [ok |-> FALSE, db |-> db, err |-> DuplicateEmail]
  ELSE [ok |-> TRUE, db |-> UserRepository_create(db, dto, password_hash, t).db,
        row |-> UserRepository_create(db, dto, password_hash, t).row]

Registering(reqs) == [phase |-> "registering", reqs |-> reqs]

InitRace ==
  /\ config = DefaultConfig
  /\ users = {}
  /\ compliance_items = {}
  /\ documents = {}
  /\ risk_scores = {}
  /\ nextId = 1
  /\ now = T0
  /\ last = Registering([i \in Slots |-> Free])

\* a register request arrives on connection i; salt is the salt bcrypt
\* will draw for it
Submit(i, dto, salt) ==
  /\ last.reqs[i].stage = "free"
  /\ last' = [last EXCEPT !.reqs[i] = [stage |-> "submitted", dto |-> dto, salt |-> salt]]
  /\ UNCHANGED <<config, users, compliance_items, documents, risk_scores, nextId, now>>

\* register up to hash_password: validation, the email_exists query, the hash
CheckEmail(i) ==
  /\ last.reqs[i].stage = "submitted"
  /\ LET r == last.reqs[i] IN
     last' = [last EXCEPT !.reqs[i] =
                IF is_some(create_user_invalid(r.dto))
                THEN [ stage |-> "responded", dto |-> r.dto,
                       resp |-> into_response(AppError("Validation",
                                                       unwrap(create_user_invalid(r.dto)))) ]
                ELSE IF UserRepository_email_exists(DB, r.dto.email)
                THEN [ stage |-> "responded", dto |-> r.dto,
                       resp |-> into_response(AppError("Validation", "Email already registered")) ]
                ELSE [ stage |-> "checked", dto |-> r.dto,
                       hash |-> hash_password(r.dto.password, r.salt, "none").hash ]]
  /\ UNCHANGED <<config, users, compliance_items, documents, risk_scores, nextId, now>>

\* register from user_repo.create on: the INSERT, the token, the response
InsertUser(i) ==
  /\ last.reqs[i].stage = "checked"
  /\ LET r == last.reqs[i]
         created == UserRepository_create_unique(DB, r.dto, r.hash, now) IN
     /\ users' = created.db.users
     /\ last' = [last EXCEPT !.reqs[i] =
                   [ stage |-> "responded", dto |-> r.dto,
                     resp |-> IF created.ok
                              THEN AuthReply(201, created.row,
                                             generate_token(config.jwt_secret, created.row.id,
                                                            created.row.email, now), FALSE)
                              ELSE into_response(created.err) ]]
  /\ UNCHANGED <<config, compliance_items, documents, risk_scores, nextId, now>>

\* the response of connection i leaves the server
Registered(i) ==
  /\ last.reqs[i].stage = "responded"
  /\ last' = [last EXCEPT !.reqs[i] = Free]
  /\ UNCHANGED <<config, users, compliance_items, documents, risk_scores, nextId, now>>

RaceDtos ==
  { CreateUserDto(email, Password("password123", "", 11), full_name) :
      email \in Emails, full_name \in {"ab", ""} }

NextRace ==
  \/ \E i \in Slots, dto \in RaceDtos, salt \in Salts : Submit(i, dto, salt)
  \/ \E i \in Slots : CheckEmail(i)
  \/ \E i \in Slots : InsertUser(i)
  \/ \E i \in Slots : Registered(i)

SpecRace == InitRace /\ [][NextRace]_vars

----------------------------------------------------------------------------
(* C27: registration under concurrency *)

\* the response to a register request whose email is taken
EmailTaken == into_response(AppError("Validation", "Email already registered"))

\* C27: however the steps of concurrent register requests interleave, no
\* two credential records share an email, and every well-formed request is
\* answered either 201 or with the validation error "Email already
\* registered" (400), never with a storage failure
C27_UniqueEmailUnderRace ==
  /\ \A u1, u2 \in users : u1.email = u2.email => u1 = u2
  /\ \A i \in Slots :
       (last.reqs[i].stage = "responded" /\ create_user_invalid(last.reqs[i].dto) = None)
         => \/ last.reqs[i].resp.status = 201
            \/ last.reqs[i].resp = EmailTaken

\* two requests for the same email were both past the email check: one was
\* answered 201, the other 500 "Database error occurred"
C27_Witness ==
  /\ last.reqs[1].stage = "responded" /\ last.reqs[2].stage = "responded"
  /\ last.reqs[1].dto.email = last.reqs[2].dto.email
  /\ last.reqs[1].resp.status = 201
  /\ last.reqs[2].resp.status = 500
  /\ last.reqs[2].resp.error = Some("Database error occurred")
  /\ Cardinality({u \in users : u.email = last.reqs[1].dto.email}) = 1

----------------------------------------------------------------------------
(* C28: risk scores and the tenant of what they reference *)

\* the stored compliance items a risk score refers to
ReferencedItems(r) == {c \in compliance_items : c.id = r.compliance_item_id}

\* the stored documents a risk score refers to
ReferencedDocuments(r) ==
  IF is_some(r.document_id) THEN {d \in documents : d.id = unwrap(r.document_id)} ELSE {}

\* C28: risk scores never link across tenants: whatever compliance item or
\* document a stored risk score refers to belongs to the risk score's own
\* user. (The claim also asks that the referenced row exists; this is the
\* part that does not depend on the schema's foreign keys.)
C28_NoCrossTenantLink ==
  \A r \in risk_scores :
    /\ \A c \in ReferencedItems(r) : c.user_id = r.user_id
    /\ \A d \in ReferencedDocuments(r) : d.user_id = r.user_id

\* a create_score answered 201 left a risk score of one user that refers
\* to a stored compliance item of another user
C28_Witness ==
  /\ Handled(last) /\ last.route = "POST /risk-scores" /\ last.resp.status = 201
  /\ \E r \in risk_scores :
       /\ r.user_id = Caller(last)
       /\ r \in Range(last.resp.body)
       /\ \E c \in ReferencedItems(r) : c.user_id # r.user_id

----------------------------------------------------------------------------
(* Two requests of one owner on the same rows, in flight together *)

\* the store is seeded; both connections are free
InitMerge ==
  /\ config = DefaultConfig
  /\ users = SeededStore.users
  /\ compliance_items = SeededStore.compliance_items
  /\ documents = SeededStore.documents
  /\ risk_scores = SeededStore.risk_scores
  /\ nextId = SeededStore.nextId
  /\ now = T0
  /\ last = Serving([i \in Slots |-> Free], {})

\* present exactly the fields of F, each with the value an update writes
UpdateRiskScoreDto(F) ==
  [ risk_category |-> IF "risk_category" \in F THEN Some("new") ELSE None,
    risk_score    |-> IF "risk_score" \in F THEN Some(90) ELSE None,
    risk_level    |-> IF "risk_level" \in F THEN Some("high") ELSE None,
    notes         |-> IF "notes" \in F THEN Some("new") ELSE None,
    ai_confidence |-> IF "ai_confidence" \in F THEN Some(1) ELSE None,
    ai_reasoning  |-> IF "ai_reasoning" \in F THEN Some("new") ELSE None ]

MergeComplianceFields == {"title", "description", "status", "due_date"}

MergeRiskFields == {"risk_score", "notes", "ai_confidence"}

\* the updates of compliance item 1 and of risk score 2, one for each set
\* of fields, and the path ids of their deletes
MergeComplianceArgs ==
  { [id |-> 1, dto |-> UpdateComplianceDto(F)] : F \in SUBSET MergeComplianceFields }

MergeRiskArgs ==
  { [id |-> 2, dto |-> UpdateRiskScoreDto(F)] : F \in SUBSET MergeRiskFields }

ItemOne == [id |-> 1, dto |-> None]

ScoreTwo == [id |-> 2, dto |-> None]

\* an update or a delete of compliance item 1 or of risk score 2
MergeRequest(i, h) ==
  \/ \E arg \in MergeComplianceArgs : Arrive(i, "PUT /compliance/:id", h, arg)
  \/ Arrive(i, "DELETE /compliance/:id", h, ItemOne)
  \/ \E arg \in MergeRiskArgs : Arrive(i, "PUT /risk-scores/:id", h, arg)
  \/ Arrive(i, "DELETE /risk-scores/:id", h, ScoreTwo)

\* each connection carries one request; the run ends with both answered
\* and neither response drained yet
NextMerge ==
  \/ \E i \in Slots, h \in OwnerHeaders : MergeRequest(i, h)
  \/ \E i \in Slots : Authenticate(i)
  \/ \E i \in Slots : Execute(i)
  \/ Pass(T0 + 1)

SpecMerge == InitMerge /\ [][NextMerge]_vars

----------------------------------------------------------------------------
(* C29: concurrent partial updates and deletes *)

\* the handler of connection i ran and its response is written
Answered(i) == last.phase = "serving" /\ last.reqs[i].stage = "responded" /\ last.reqs[i].ran

\* the row with this id as it was before either request
SeededRow(tn, id) ==
  CHOOSE r \in (IF tn = "compliance" THEN SeededStore.compliance_items
                ELSE SeededStore.risk_scores) : r.id = id

\* connections i and j were both answered 200 to updates of the same
\* resource whose payloads have no field in common
DisjointUpdates(i, j) ==
  /\ i # j /\ Answered(i) /\ Answered(j)
  /\ last.reqs[i].route \in UpdateRoutes /\ last.reqs[j].route = last.reqs[i].route
  /\ last.reqs[j].arg.id = last.reqs[i].arg.id
  /\ last.reqs[i].resp.status = 200 /\ last.reqs[j].resp.status = 200
  /\ Present(last.reqs[i].arg.dto) \cap Present(last.reqs[j].arg.dto) = {}

\* the value of column f once both payloads are applied to the seeded row
FieldAfter(tn, id, d1, d2, f) ==
  IF f \in Present(d1) THEN Supplied(tn, d1, f)
  ELSE IF f \in Present(d2) THEN Supplied(tn, d2, f)
  ELSE SeededRow(tn, id)[f]

\* the column an update writes besides those of its payload: a compliance
\* update with a field present also sets updated_at = NOW()
Stamped(tn, d1, d2) ==
  IF tn = "compliance" /\ Present(d1) \cup Present(d2) # {} THEN {"updated_at"} ELSE {}

\* connection i updated and connection j deleted the same resource
UpdateAndDelete(i, j) ==
  /\ i # j /\ Answered(i) /\ Answered(j)
  /\ last.reqs[i].route \in UpdateRoutes /\ last.reqs[j].route \in DeleteRoutes
  /\ TableOf(last.reqs[i].route) = TableOf(last.reqs[j].route)
  /\ last.reqs[i].arg.id = last.reqs[j].arg.id

\* a delete that succeeded leaves no row with its id, whatever the other
\* connection does before or after it; the update in flight with it is
\* answered with a row that has its payload applied, or NotFound
DeleteWins ==
  /\ \A j \in Slots :
       (Answered(j) /\ last.reqs[j].route \in DeleteRoutes /\ last.reqs[j].resp.status = 204)
         => ~ \E r \in Tables[TableOf(last.reqs[j].route)] : r.id = last.reqs[j].arg.id
  /\ \A i, j \in Slots :
       UpdateAndDelete(i, j) =>
         LET q == last.reqs[i] IN
         \/ q.resp = NotFoundResponse(q.route)
         \/ /\ q.resp.status = 200
            /\ \A f \in Present(q.arg.dto) :
                 q.resp.body[1][f] = Supplied(TableOf(q.route), q.arg.dto, f)

----------------------------------------------------------------------------
(* Update payloads as JSON: the Json extractor in front of the update
   handlers. A member of an object is a value or null, or is not there *)

JsonMissing == [type |-> "missing"]

JsonNull == [type |-> "null"]

JsonValue(v) == [type |-> "value", v |-> v]

\* the fields of the payload struct of an update route
DtoFields(route) ==
  CASE TableOf(route) = "compliance" -> AllComplianceFields
    [] TableOf(route) = "documents"  -> {"extracted_text", "ai_analysis"}
    [] OTHER -> {"risk_category", "risk_score", "risk_level", "notes",
                 "ai_confidence", "ai_reasoning"}

\* serde's Deserialize for a struct of Option fields: a member that is
\* missing or null gives None, any other member Some of its value;
\* members the struct does not have are ignored
from_json(route, json) ==
  [ f \in DtoFields(route) |->
      IF f \in DOMAIN json /\ json[f].type = "value" THEN Some(json[f].v) ELSE None ]

\* the store seeded, and a document of the same owner next to it
InitPayload ==
  LET d == DocumentRepository_create(
             SeededStore, 101, CHOOSE dto \in CreateDocumentDtos : dto.file_size = 10, T0).db IN
  /\ config = DefaultConfig
  /\ users = d.users
  /\ compliance_items = d.compliance_items
  /\ documents = d.documents
  /\ risk_scores = d.risk_scores
  /\ nextId = d.nextId
  /\ now = T0
  /\ last = Idle

\* one update request with a JSON body, from its arrival to its response
Update(route, headers, id, json) ==
  /\ last.phase = "idle"
  /\ LET arg == [id |-> id, dto |-> from_json(route, json)] IN
     \E o \in protected_route(route, headers, DB, arg, now) :
       /\ users' = o.db.users
       /\ compliance_items' = o.db.compliance_items
       /\ documents' = o.db.documents
       /\ risk_scores' = o.db.risk_scores
       /\ nextId' = o.db.nextId
       /\ last' = [ phase |-> "done", route |-> route, headers |-> headers, arg |-> arg,
                    json |-> json, at |-> now, ran |-> o.ran, claims |-> o.claims,
                    resp |-> o.resp ]
  /\ UNCHANGED <<config, now>>

\* the value a payload carries for a field when it carries one
PayloadValue(f) ==
  CASE f = "title" -> "new"
    [] f = "due_date" -> T0 + TokenLifetime
    [] f = "ai_analysis" -> "json"
    [] f = "ai_confidence" -> 1
    [] OTHER -> "new"

\* what an object can hold for a field: nothing, null or a value
JsonMembers(f) == {JsonMissing, JsonNull, JsonValue(PayloadValue(f))}

\* the bodies sent to each update route
ComplianceJson ==
  { [title |-> a, description |-> b, due_date |-> c] :
      a \in JsonMembers("title"), b \in JsonMembers("description"),
      c \in JsonMembers("due_date") }

DocumentJson ==
  { [extracted_text |-> a, ai_analysis |-> b] :
      a \in JsonMembers("extracted_text"), b \in JsonMembers("ai_analysis") }

RiskScoreJson ==
  { [notes |-> a, ai_confidence |-> b, ai_reasoning |-> c] :
      a \in JsonMembers("notes"), b \in JsonMembers("ai_confidence"),
      c \in JsonMembers("ai_reasoning") }

\* the owner's rows are compliance item 1, risk score 2 and document 3
NextPayload ==
  \/ \E h \in OwnerHeaders, json \in ComplianceJson : Update("PUT /compliance/:id", h, 1, json)
  \/ \E h \in OwnerHeaders, json \in DocumentJson : Update("PUT /documents/:id", h, 3, json)
  \/ \E h \in OwnerHeaders, json \in RiskScoreJson : Update("PUT /risk-scores/:id", h, 2, json)
  \/ Deliver

SpecPayload == InitPayload /\ [][NextPayload]_vars

----------------------------------------------------------------------------
(* C30: an update cannot clear a value *)

\* the payload with its null members left out
WithoutNulls(json) ==
  [f \in DOMAIN json |-> IF json[f].type = "null" THEN JsonMissing ELSE json[f]]

\* this step is an update request answered
Updates == last.phase = "idle" /\ last'.phase = "done" /\ last'.route \in UpdateRoutes

\* C30: a payload field given as null is treated exactly like an absent
\* field: the update leaves the store and answers as it would for the
\* payload without its null members; and no update makes a nullable column
\* (compliance description and due_date; document extracted_text and
\* ai_analysis; risk score notes, ai_confidence and ai_reasoning) that
\* holds a value NULL again
C30_UpdateCannotClear ==
  [][ /\ Updates =>
           \E o \in protected_route(last'.route, last'.headers, DB,
                                    [ id |-> last'.arg.id,
                                      dto |-> from_json(last'.route, WithoutNulls(last'.json)) ],
                                    now) :
             o.db = DB' /\ o.resp = last'.resp
      /\ \A tn \in TableNames : \A r \in Tables[tn] : \A f \in NullableOf(tn) :
           is_some(r[f]) => \A q \in Tables'[tn] : q.id = r.id => is_some(q[f]) ]_vars

\* an update of the risk score whose payload gives notes as null and
\* ai_confidence as a value is answered 200 while notes, set by an earlier
\* update, still holds its value
C30_Witness ==
  /\ last.phase = "done" /\ last.route = "PUT /risk-scores/:id" /\ last.resp.status = 200
  /\ "json" \in DOMAIN last
  /\ last.json["notes"].type = "null" /\ last.json["ai_confidence"].type = "value"
  /\ \E r \in risk_scores : r.id = 2 /\ r.notes = Some("new") /\ r.ai_confidence = Some(1)

====
